---------------------------- MODULE Spec2Model ----------------------------
(***************************************************************************)
(* A model of the warranty-claims processor: the triage / extraction /     *)
(* policy-selection / decision pipeline of src/orchestrator.py and the     *)
(* tools under src/tools/.                                                 *)
(*                                                                         *)
(* Python strings are modelled as sequences of one-character strings, so   *)
(* that lower(), strip(), "in" (substring), startswith/endswith and the    *)
(* tokenizer are computed the way the code computes them.  Optional[T] is  *)
(* modelled as a sequence of length 0 (None) or 1 (a value).               *)
(***************************************************************************)
EXTENDS Integers, Sequences, FiniteSets, TLC

(***************************************************************************)
(* Python str primitives                                                   *)
(***************************************************************************)
None == <<>>
Some(x) == <<x>>

UpperLetters == <<"A","B","C","D","E","F","G","H","I","J","K","L","M","N","O","P","Q","R","S","T","U","V","W","X","Y","Z">>
LowerLetters == <<"a","b","c","d","e","f","g","h","i","j","k","l","m","n","o","p","q","r","s","t","u","v","w","x","y","z">>
Digits == <<"0","1","2","3","4","5","6","7","8","9">>

RangeOf(s) == {s[i] : i \in DOMAIN s}

LowerSet == RangeOf(LowerLetters)
UpperSet == RangeOf(UpperLetters)
DigitSet == RangeOf(Digits)
Whitespace == {" ", "\n", "\t"}

\* str.lower() on one character
LowerOf == [c \in UpperSet |->
              LowerLetters[CHOOSE i \in DOMAIN UpperLetters : UpperLetters[i] = c]]
LowerChar(c) == IF c \in UpperSet THEN LowerOf[c] ELSE c

\* str.lower()
Lower(s) == [i \in DOMAIN s |-> LowerChar(s[i])]

\* k in s  (substring test)
Contains(s, k) ==
    \E i \in 0..(Len(s) - Len(k)) : SubSeq(s, i + 1, i + Len(k)) = k

\* s.startswith(k), s.endswith(k)
StartsWith(s, k) == Len(k) <= Len(s) /\ SubSeq(s, 1, Len(k)) = k
EndsWith(s, k) == Len(k) <= Len(s) /\ SubSeq(s, Len(s) - Len(k) + 1, Len(s)) = k

\* s.strip(): drop leading and trailing whitespace
RECURSIVE LStrip(_)
LStrip(s) == IF s # <<>> /\ Head(s) \in Whitespace THEN LStrip(Tail(s)) ELSE s
RECURSIVE RStrip(_)
RStrip(s) ==
    IF s # <<>> /\ s[Len(s)] \in Whitespace THEN RStrip(SubSeq(s, 1, Len(s) - 1)) ELSE s
Strip(s) == RStrip(LStrip(s))

\* " ".join(parts)
RECURSIVE JoinSpace(_)
JoinSpace(parts) ==
    IF parts = <<>> THEN <<>>
    ELSE IF Len(parts) = 1 THEN parts[1]
    ELSE parts[1] \o <<" ">> \o JoinSpace(Tail(parts))

\* s.split(): the maximal runs of non-whitespace characters, in order
IsWordStart(s, i) == s[i] \notin Whitespace /\ (i = 1 \/ s[i - 1] \in Whitespace)
IsWordEnd(s, j) == s[j] \notin Whitespace /\ (j = Len(s) \/ s[j + 1] \in Whitespace)
WordEnd(s, i) == CHOOSE j \in i..Len(s) : IsWordEnd(s, j) /\ \A k \in i..j : s[k] \notin Whitespace
WordStarts(s) == SelectSeq([i \in 1..Len(s) |-> i], LAMBDA i : IsWordStart(s, i))
WordsAt(s, starts) == [k \in DOMAIN starts |-> SubSeq(s, starts[k], WordEnd(s, starts[k]))]
Split(s) == WordsAt(s, WordStarts(s))

\* str(n) for an int
RECURSIVE NatToText(_)
NatToText(n) ==
    IF n < 10 THEN <<Digits[n + 1]>> ELSE NatToText(n \div 10) \o <<Digits[(n % 10) + 1]>>
IntToText(n) == IF n < 0 THEN <<"-">> \o NatToText(0 - n) ELSE NatToText(n)

\* truthiness of an Optional[str]: None and "" are both falsy
Truthy(o) == o # None /\ o[1] # <<>>
\* (o or "")
OrEmpty(o) == IF Truthy(o) THEN o[1] ELSE <<>>

(***************************************************************************)
(* datetime.date: a record [y, m, d]; toordinal() as in the standard       *)
(* library (proleptic Gregorian calendar), isoformat() as YYYY-MM-DD.      *)
(***************************************************************************)
IsLeap(y) == (y % 4 = 0) /\ ((y % 100 # 0) \/ (y % 400 = 0))
DaysInMonth(y, m) ==
    IF m = 2 THEN (IF IsLeap(y) THEN 29 ELSE 28)
    ELSE IF m \in {4, 6, 9, 11} THEN 30 ELSE 31
DaysBeforeYear(y) ==
    LET p == y - 1 IN p * 365 + (p \div 4) - (p \div 100) + (p \div 400)
RECURSIVE DaysBeforeMonth(_, _)
DaysBeforeMonth(y, m) ==
    IF m = 1 THEN 0 ELSE DaysBeforeMonth(y, m - 1) + DaysInMonth(y, m - 1)
ToOrdinal(dt) == DaysBeforeYear(dt.y) + DaysBeforeMonth(dt.y, dt.m) + dt.d
Date(y, m, d) == [y |-> y, m |-> m, d |-> d]
ValidDate(y, m, d) == y >= 1 /\ y <= 9999 /\ m \in 1..12 /\ d >= 1 /\ d <= DaysInMonth(y, m)
\* zero-padded decimal of width w
RECURSIVE Pad(_, _)
Pad(t, w) == IF Len(t) >= w THEN t ELSE Pad(<<"0">> \o t, w)
IsoFormat(dt) ==
    Pad(NatToText(dt.y), 4) \o <<"-">> \o Pad(NatToText(dt.m), 2) \o <<"-">> \o Pad(NatToText(dt.d), 2)
\* (a - b).days
DaysBetween(a, b) == ToOrdinal(a) - ToOrdinal(b)

(***************************************************************************)
(* src/schemas.py: the records                                             *)
(***************************************************************************)
PolicyDoc(id, name, months, covered, excl, proof) ==
    [policy_id |-> id, product_name |-> name, warranty_period_months |-> months,
     covered_issues |-> covered, exclusions |-> excl, required_proof |-> proof]

PolicyExcerpt(section, excerpt, policy_id) ==
    [section |-> section, excerpt |-> excerpt, policy_id |-> policy_id]

\* a rendered f-string: the literal template and the values substituted in it
Ln(msg, args) == [msg |-> msg, args |-> args]

(***************************************************************************)
(* The policy catalog (data/policies/*.json, loaded in sorted file order)  *)
(***************************************************************************)
PolicyPro1800 ==
    PolicyDoc(<<"p","o","l","i","c","y","_","a","e","r","o","d","r","y","_","p","r","o","_","1","8","0","0">>, <<"A","e","r","o","D","r","y"," ","P","r","o"," ","1","8","0","0">>, 3,
              << <<"M","o","t","o","r"," ","s","t","o","p","p","e","d"," ","w","o","r","k","i","n","g">>, <<"H","e","a","t","i","n","g"," ","e","l","e","m","e","n","t"," ","f","a","i","l","u","r","e">>,
                 <<"P","o","w","e","r"," ","s","w","i","t","c","h"," ","f","a","i","l","u","r","e">>, <<"O","v","e","r","h","e","a","t","i","n","g"," ","s","h","u","t","s"," ","o","f","f">> >>,
              << <<"U","s","e"," ","w","i","t","h"," ","a"," ","v","o","l","t","a","g","e"," ","c","o","n","v","e","r","t","e","r">>, <<"D","a","m","a","g","e"," ","d","u","r","i","n","g"," ","t","r","a","v","e","l"," ","o","r"," ","f","l","i","g","h","t">>,
                 <<"L","o","o","s","e"," ","n","o","z","z","l","e"," ","o","r"," ","a","t","t","a","c","h","m","e","n","t"," ","w","e","a","r">>, <<"C","o","s","m","e","t","i","c"," ","d","a","m","a","g","e">> >>,
              << <<"I","n","v","o","i","c","e"," ","o","r"," ","r","e","c","e","i","p","t">>, <<"O","r","d","e","r"," ","I","D">> >>)
PolicyPro2200 ==
    PolicyDoc(<<"p","o","l","i","c","y","_","a","e","r","o","d","r","y","_","p","r","o","_","2","2","0","0">>, <<"A","e","r","o","D","r","y"," ","P","r","o"," ","2","2","0","0">>, 12,
              << <<"M","o","t","o","r"," ","f","a","i","l","u","r","e">> >>,
              << <<"W","a","t","e","r"," ","d","a","m","a","g","e">> >>,
              << <<"I","n","v","o","i","c","e"," ","o","r"," ","r","e","c","e","i","p","t">> >>)
PolicyTravelMini ==
    PolicyDoc(<<"p","o","l","i","c","y","_","a","e","r","o","d","r","y","_","t","r","a","v","e","l","_","m","i","n","i">>, <<"A","e","r","o","D","r","y"," ","T","r","a","v","e","l"," ","M","i","n","i">>, 1,
              << <<"F","o","l","d","i","n","g"," ","h","a","n","d","l","e"," ","b","r","o","k","e","n">>, <<"M","o","t","o","r"," ","f","a","i","l","u","r","e">> >>,
              << >>,
              << >>)

\* a product whose name has no word of three characters
PolicyGo2 ==
    PolicyDoc(<<"p","o","l","i","c","y","_","g","o","_","2">>, <<"G","o"," ","2">>, 6,
              << <<"B","a","t","t","e","r","y"," ","f","a","i","l","u","r","e">> >>,
              << <<"W","a","t","e","r"," ","d","a","m","a","g","e">> >>,
              << <<"O","r","d","e","r"," ","I","D">> >>)

\* the catalogs considered: records under different file orders
Catalogs ==
    { <<PolicyPro1800, PolicyPro2200, PolicyTravelMini>>,
      <<PolicyTravelMini, PolicyPro2200, PolicyPro1800>>,
      <<PolicyPro2200>>,
      <<PolicyPro2200, PolicyGo2>> }

(***************************************************************************)
(* src/tools/policy_retriever.py                                           *)
(***************************************************************************)
\* re.sub(r"[^a-z0-9\s]+", " ", s): every maximal run of other characters
\* becomes one space
TokenChars == LowerSet \cup DigitSet \cup Whitespace
IsTokenChar(c) == c \in TokenChars
Dropped == ""
SubMark(s) ==
    [i \in DOMAIN s |->
       IF IsTokenChar(s[i]) THEN s[i]
       ELSE IF i = 1 \/ IsTokenChar(s[i - 1]) THEN " " ELSE Dropped]
SubNonAlnum(s) == SelectSeq(SubMark(s), LAMBDA c : c # Dropped)

MinTokenLen == 3
KeepToken(t) == Len(t) >= MinTokenLen

\* PolicyRetriever._tokenize
Tokenize(s) == {t \in RangeOf(Split(SubNonAlnum(Lower(s)))) : KeepToken(t)}

\* PolicyRetriever.list_products
ListProducts(policies) == [i \in DOMAIN policies |-> policies[i].product_name]

\* PolicyRetriever.get_policy_by_product: the first policy whose stripped,
\* lowercased name equals the stripped, lowercased argument
RECURSIVE GetPolicyByProduct(_, _)
GetPolicyByProduct(policies, product_name) ==
    IF policies = <<>> THEN None
    ELSE IF Lower(Strip(Head(policies).product_name)) = Lower(Strip(product_name))
         THEN Some(Head(policies))
         ELSE GetPolicyByProduct(Tail(policies), product_name)

SubstringBonus == 3
\* the score of one candidate inside the loop of _best_match_from_text
MatchScore(p, text, text_tokens) ==
    Cardinality(text_tokens \cap Tokenize(p.product_name))
    + (IF Contains(Lower(text), Lower(p.product_name)) THEN SubstringBonus ELSE 0)

\* "if score > best_score": a candidate replaces the best only when strictly better
Improves(score, best_score) == score > best_score

RECURSIVE BestMatchLoop(_, _, _, _, _)
BestMatchStep(ps, text, text_tokens, best, best_score, score) ==
    IF Improves(score, best_score)
    THEN BestMatchLoop(Tail(ps), text, text_tokens, Some(Head(ps)), score)
    ELSE BestMatchLoop(Tail(ps), text, text_tokens, best, best_score)
BestMatchLoop(ps, text, text_tokens, best, best_score) ==
    IF ps = <<>> THEN [best |-> best, best_score |-> best_score]
    ELSE BestMatchStep(ps, text, text_tokens, best, best_score,
                       MatchScore(Head(ps), text, text_tokens))

\* the end of _best_match_from_text: "return best if best_score > 0 else None"
BestIfPositive(r) == IF r.best_score > 0 THEN r.best ELSE None
BestMatchWithTokens(policies, text, text_tokens) ==
    IF text_tokens = {} THEN None
    ELSE BestIfPositive(BestMatchLoop(policies, text, text_tokens, None, 0))

\* PolicyRetriever._best_match_from_text
BestMatchFromText(policies, text) ==
    IF text = <<>> THEN None
    ELSE BestMatchWithTokens(policies, text, Tokenize(text))

ReasonExactPrefix == <<"E","x","a","c","t"," ","m","a","t","c","h"," ","o","n"," ","p","r","o","d","u","c","t","_","n","a","m","e","=","'">>
ReasonHintPrefix == <<"M","a","t","c","h","e","d"," ","p","o","l","i","c","y"," ","u","s","i","n","g"," ","p","r","o","d","u","c","t","_","m","o","d","e","l","_","h","i","n","t","=","'">>
ReasonSuffix == <<"'",".">>
ReasonOverlap == <<"S","e","l","e","c","t","e","d"," ","b","e","s","t","-","m","a","t","c","h","i","n","g"," ","p","o","l","i","c","y"," ","u","s","i","n","g"," ","t","o","k","e","n"," ","o","v","e","r","l","a","p"," ","o","n"," ","c","l","a","i","m"," ","t","e","x","t",".">>
ReasonFallback == <<"F","a","l","l","b","a","c","k",":"," ","d","e","f","a","u","l","t","e","d"," ","t","o"," ","f","i","r","s","t"," ","p","o","l","i","c","y"," ","(","n","o"," ","m","a","t","c","h"," ","f","o","u","n","d",")",".">>

\* a variant that tries the hint before the exact name
RuleOrderHintFirst == <<"hint", "exact", "combined", "first">>
\* the order in which select_policy tries its rules
RuleOrder == <<"exact", "hint", "combined", "first">>

\* (policy, reason) when a lookup found a policy, else None
Selected(found, reason) ==
    IF found # None THEN Some([policy |-> found[1], reason |-> reason]) ELSE None

HintRule(policies, hint) ==
    IF hint # <<>>
    THEN Selected(BestMatchFromText(policies, hint), ReasonHintPrefix \o hint \o ReasonSuffix)
    ELSE None

\* what one rule of select_policy yields: None, or the (policy, reason) it returns
SelectRule(rule, policies, claim) ==
    CASE rule = "exact" ->
           IF Truthy(claim.product_name)
           THEN Selected(GetPolicyByProduct(policies, claim.product_name[1]),
                         ReasonExactPrefix \o claim.product_name[1] \o ReasonSuffix)
           ELSE None
      [] rule = "hint" ->
           HintRule(policies, Strip(OrEmpty(claim.product_model_hint)))
      [] rule = "combined" ->
           Selected(BestMatchFromText(policies,
                        Strip(JoinSpace(<<OrEmpty(claim.product_name),
                                          OrEmpty(claim.product_model_hint),
                                          claim.issue_description>>))),
                    ReasonOverlap)
      [] rule = "first" ->
           Some([policy |-> policies[1], reason |-> ReasonFallback])

\* the first rule, in the given order, that yields a policy
RECURSIVE FirstRule(_, _, _)
OrNextRule(r, rules, policies, claim) ==
    IF r # None \/ Len(rules) = 1 THEN r ELSE FirstRule(Tail(rules), policies, claim)
FirstRule(rules, policies, claim) ==
    OrNextRule(SelectRule(Head(rules), policies, claim), rules, policies, claim)

SelectionOf(r) == [raised |-> "", policy |-> Some(r[1].policy), reason |-> r[1].reason]

\* a variant without the final fallback
SelectPolicyNoFallback(policies, claim) ==
    IF policies = <<>>
    THEN [raised |-> "RuntimeError", policy |-> None, reason |-> <<>>]
    ELSE IF FirstRule(<<"exact", "hint", "combined">>, policies, claim) = None
    THEN [raised |-> "", policy |-> None, reason |-> <<>>]
    ELSE SelectionOf(FirstRule(<<"exact", "hint", "combined">>, policies, claim))

\* PolicyRetriever.select_policy: [raised, policy, reason]
SelectPolicy(policies, claim) ==
    IF policies = <<>>
    THEN [raised |-> "RuntimeError", policy |-> None, reason |-> <<>>]
    ELSE SelectionOf(FirstRule(RuleOrder, policies, claim))

\* PolicyRetriever._rank_clauses: score every clause by its token overlap with
\* the issue text, then sort by score, largest first (list.sort is stable)
RECURSIVE InsertScored(_, _)
InsertScored(sorted, x) ==
    IF sorted = <<>> THEN <<x>>
    ELSE IF Head(sorted).overlap >= x.overlap
         THEN <<Head(sorted)>> \o InsertScored(Tail(sorted), x)
         ELSE <<x>> \o sorted
RECURSIVE SortScored(_, _)
SortScored(scored, sorted) ==
    IF scored = <<>> THEN sorted
    ELSE SortScored(Tail(scored), InsertScored(sorted, Head(scored)))
ScoreClauses(clauses, issue_tokens) ==
    [i \in DOMAIN clauses |->
       [overlap |-> Cardinality(issue_tokens \cap Tokenize(clauses[i])), clause |-> clauses[i]]]
ClausesOf(sorted) == [i \in DOMAIN sorted |-> sorted[i].clause]
\* a variant that leaves the clauses in catalog order
RankClausesUnsorted(clauses, issue_text_lower) == clauses
RankClauses(clauses, issue_text_lower) ==
    ClausesOf(SortScored(ScoreClauses(clauses, Tokenize(issue_text_lower)), <<>>))

\* xs[:n]
Take(xs, n) == SubSeq(xs, 1, IF Len(xs) < n THEN Len(xs) ELSE n)

SecWarranty == <<"W","a","r","r","a","n","t","y"," ","P","e","r","i","o","d">>
SecCovered == <<"C","o","v","e","r","e","d"," ","I","s","s","u","e","s">>
SecExclusions == <<"E","x","c","l","u","s","i","o","n","s">>
SecProof == <<"R","e","q","u","i","r","e","d"," ","P","r","o","o","f">>
MonthsSuffix == <<" ","m","o","n","t","h","s"," ","f","r","o","m"," ","p","u","r","c","h","a","s","e"," ","d","a","t","e">>

TopCovered == 3
TopExclusions == 3
RawExclusions == 2

\* the excerpts of retrieve_excerpts, given the two ranked clause lists
ExcerptsOf(policy, covered_sorted, exclusions_sorted) ==
    << PolicyExcerpt(SecWarranty, IntToText(policy.warranty_period_months) \o MonthsSuffix,
                     policy.policy_id) >>
    \o [i \in 1..Len(Take(covered_sorted, TopCovered)) |->
          PolicyExcerpt(SecCovered, covered_sorted[i], policy.policy_id)]
    \o (IF exclusions_sorted # <<>>
        THEN [i \in 1..Len(Take(exclusions_sorted, TopExclusions)) |->
                PolicyExcerpt(SecExclusions, exclusions_sorted[i], policy.policy_id)]
        ELSE [i \in 1..Len(Take(policy.exclusions, RawExclusions)) |->
                PolicyExcerpt(SecExclusions, policy.exclusions[i], policy.policy_id)])
    \o [i \in DOMAIN policy.required_proof |->
          PolicyExcerpt(SecProof, policy.required_proof[i], policy.policy_id)]

\* PolicyRetriever.retrieve_excerpts
RetrieveExcerpts(policy, claim) ==
    ExcerptsOf(policy,
               RankClauses(policy.covered_issues, Lower(claim.issue_description)),
               RankClauses(policy.exclusions, Lower(claim.issue_description)))


(***************************************************************************)
(* PolicyRetriever.__init__ / _load_policies                               *)
(***************************************************************************)
\* code points order the characters file names are made of
CodePoints == <<"-", ".">> \o Digits \o UpperLetters \o <<"_">> \o LowerLetters
Ord(c) == CHOOSE k \in DOMAIN CodePoints : CodePoints[k] = c

\* a < b on str, which is how sorted() orders the paths of one directory
Agree(a, b, i) == \A j \in 1..(i - 1) : j <= Len(a) /\ j <= Len(b) /\ a[j] = b[j]
Differ(a, b, i) == i > Len(a) \/ i > Len(b) \/ a[i] # b[i]
FirstDiff(a, b) == CHOOSE i \in 1..(Len(a) + 1) : Differ(a, b, i) /\ Agree(a, b, i)
TextLess(a, b) ==
    \E i \in {FirstDiff(a, b)} :
       IF i > Len(a) THEN i <= Len(b)
       ELSE IF i > Len(b) THEN FALSE
       ELSE Ord(a[i]) < Ord(b[i])

\* a JSON value of a policy file, and the file
JStr(s) == [t |-> "str", s |-> s, n |-> 0, l |-> <<>>]
JInt(n) == [t |-> "int", s |-> <<>>, n |-> n, l |-> <<>>]
JList(l) == [t |-> "list", s |-> <<>>, n |-> 0, l |-> l]
JObject(id, name, months, covered, excl, proof) ==
    [policy_id |-> id, product_name |-> name, warranty_period_months |-> months,
     covered_issues |-> covered, exclusions |-> excl, required_proof |-> proof]
PolicyFile(name, kind, obj) == [name |-> name, kind |-> kind, obj |-> obj]

\* sorted(self.config.policies_dir.glob("*.json"))
JsonSuffix == <<".","j","s","o","n">>
GlobJson(dir) == {f \in dir : EndsWith(f.name, JsonSuffix)}
First(files) == CHOOSE g \in files : \A h \in files \ {g} : TextLess(g.name, h.name)
RECURSIVE SortedFiles(_)
SortedFiles(files) ==
    IF files = {} THEN <<>>
    ELSE <<First(files)>> \o SortedFiles(files \ {First(files)})

\* fp.stem
Stem(name) == SubSeq(name, 1, Len(name) - Len(JsonSuffix))

\* PolicyDoc.model_validate(raw): policy_id and product_name are required
\* strings, the period is an int with default 3, the lists default to empty
IsStr(o) == o # None /\ o[1].t = "str"
IsIntOrDefault(o) == o = None \/ o[1].t = "int"
IsListOrDefault(o) == o = None \/ o[1].t = "list"
DefaultMonths == 3
Validates(raw) ==
    /\ IsStr(raw.policy_id)
    /\ IsStr(raw.product_name)
    /\ IsIntOrDefault(raw.warranty_period_months)
    /\ IsListOrDefault(raw.covered_issues)
    /\ IsListOrDefault(raw.exclusions)
    /\ IsListOrDefault(raw.required_proof)
ListOr(o) == IF o = None THEN <<>> ELSE o[1].l
ModelValidate(raw) ==
    PolicyDoc(raw.policy_id[1].s, raw.product_name[1].s,
              IF raw.warranty_period_months = None THEN DefaultMonths
              ELSE raw.warranty_period_months[1].n,
              ListOr(raw.covered_issues), ListOr(raw.exclusions), ListOr(raw.required_proof))

\* raw.setdefault("policy_id", fp.stem)
SetDefaultId(raw, fp) ==
    IF raw.policy_id = None THEN [raw EXCEPT !.policy_id = Some(JStr(Stem(fp.name)))] ELSE raw

Loaded(policies) == [raised |-> "", message |-> None, policies |-> policies]
Raising(type, message) == [raised |-> type, message |-> Some(message), policies |-> <<>>]

\* a variant of the loop that leaves out the records it cannot validate
RECURSIVE LoadLoopSkipping(_, _)
LoadLoopSkipping(files, acc) ==
    IF files = <<>> THEN Loaded(acc)
    ELSE IF Head(files).kind = "object" /\ Validates(SetDefaultId(Head(files).obj[1], Head(files)))
    THEN LoadLoopSkipping(Tail(files),
                          Append(acc, ModelValidate(SetDefaultId(Head(files).obj[1], Head(files)))))
    ELSE LoadLoopSkipping(Tail(files), acc)

\* the loop of _load_policies over the sorted files: json.loads, setdefault,
\* model_validate, append
RECURSIVE LoadLoop(_, _)
LoadLoop(files, acc) ==
    IF files = <<>> THEN Loaded(acc)
    ELSE IF Head(files).kind = "malformed"
    THEN Raising("JSONDecodeError", Ln("Expecting value: line 1 column 1 (char 0)", <<>>))
    ELSE IF Head(files).kind = "array"
    THEN Raising("AttributeError", Ln("'list' object has no attribute 'setdefault'", <<>>))
    ELSE IF ~Validates(SetDefaultId(Head(files).obj[1], Head(files)))
    THEN Raising("ValueError", Ln("Invalid policy JSON in {fp.name}: {e}",
                                  <<Head(files).name, <<"v","a","l","i","d","a","t","i","o","n"," ","e","r","r","o","r"," ","f","o","r"," ","P","o","l","i","c","y","D","o","c">>>>))
    ELSE LoadLoop(Tail(files),
                  Append(acc, ModelValidate(SetDefaultId(Head(files).obj[1], Head(files)))))

PoliciesDirName == <<"d","a","t","a","/","p","o","l","i","c","i","e","s">>
\* PolicyRetriever._load_policies: [raised, message, policies]
NoneFound(r) ==
    IF r.raised = "" /\ r.policies = <<>>
    THEN Raising("RuntimeError",
                 Ln("No policy .json files found in {self.config.policies_dir}. Add 10 policy files like policy_aerodry_pro_1800.json",
                    <<PoliciesDirName>>))
    ELSE r
LoadPolicies(dir) == NoneFound(LoadLoop(SortedFiles(GlobJson(dir)), <<>>))

\* the directory a catalog was loaded from: one valid file per record, named
\* so that the sorted file order is the catalog order
FileOfPolicy(i, p) ==
    PolicyFile(NatToText(i) \o <<"_">> \o p.policy_id \o JsonSuffix, "object",
               Some(JObject(Some(JStr(p.policy_id)), Some(JStr(p.product_name)),
                            Some(JInt(p.warranty_period_months)), Some(JList(p.covered_issues)),
                            Some(JList(p.exclusions)), Some(JList(p.required_proof)))))
DirOf(ps) == {FileOfPolicy(i, ps[i]) : i \in DOMAIN ps}
(***************************************************************************)
(* src/tools/decision_tool.py                                              *)
(***************************************************************************)
\* hit(*keywords): any keyword occurs in the lowercased issue text
Hit(issue_lower, keywords) == \E k \in keywords : Contains(issue_lower, k)

KwVoltage == { <<"v","o","l","t","a","g","e"," ","c","o","n","v","e","r","t","e","r">>, <<"c","o","n","v","e","r","t","e","r">>, <<"2","4","0","v">>, <<"2","2","0","v">>, <<"a","b","r","o","a","d">>,
               <<"i","n","t","e","r","n","a","t","i","o","n","a","l"," ","v","o","l","t","a","g","e">> }
KwTravel == { <<"t","r","a","v","e","l">>, <<"f","l","i","g","h","t">>, <<"a","i","r","l","i","n","e">>, <<"s","u","i","t","c","a","s","e">>, <<"l","u","g","g","a","g","e">> }
KwDamage == { <<"c","r","a","c","k">>, <<"c","r","a","c","k","e","d">>, <<"b","r","o","k","e","n">>, <<"d","a","m","a","g","e">>, <<"d","a","m","a","g","e","d">> }
KwAccessory == { <<"a","t","t","a","c","h","m","e","n","t">>, <<"n","o","z","z","l","e">>, <<"d","i","f","f","u","s","e","r">> }
KwFitment == { <<"l","o","o","s","e">>, <<"d","o","e","s"," ","n","o","t"," ","f","i","t">>, <<"d","o","e","s","n","'","t"," ","f","i","t">>, <<"n","o"," ","l","o","n","g","e","r"," ","f","i","t","s">>,
               <<"f","i","t","s"," ","s","e","c","u","r","e","l","y">> }
KwLastMonth == <<"l","a","s","t"," ","m","o","n","t","h">>

ReasonVoltage == <<"U","s","e","d"," ","w","i","t","h"," ","a"," ","v","o","l","t","a","g","e"," ","c","o","n","v","e","r","t","e","r"," ","/"," ","n","o","n","-","s","t","a","n","d","a","r","d"," ","v","o","l","t","a","g","e"," ","(","e","x","c","l","u","d","e","d",")",".">>
ReasonTravel == <<"T","r","a","v","e","l"," ","/"," ","a","i","r","l","i","n","e"," ","h","a","n","d","l","i","n","g"," ","d","a","m","a","g","e"," ","(","e","x","c","l","u","d","e","d",")",".">>
ReasonFitment == <<"A","c","c","e","s","s","o","r","y"," ","w","e","a","r","/","f","i","t","m","e","n","t"," ","i","s","s","u","e"," ","(","t","r","e","a","t","e","d"," ","a","s"," ","w","e","a","r"," ","&"," ","t","e","a","r"," ","/"," ","a","c","c","e","s","s","o","r","y"," ","n","o","t"," ","c","o","v","e","r","e","d",")",".">>

VoltageHit(issue_lower) == Hit(issue_lower, KwVoltage)
TravelDamageHit(issue_lower) == Hit(issue_lower, KwTravel) /\ Hit(issue_lower, KwDamage)
FitmentHit(issue_lower) == Hit(issue_lower, KwAccessory) /\ Hit(issue_lower, KwFitment)

\* a variant without the accessory/fitment check
ExclusionReasonNoFitment(issue_lower) ==
    LET r1 == IF VoltageHit(issue_lower) THEN Some(ReasonVoltage) ELSE None
        r2 == IF TravelDamageHit(issue_lower) THEN Some(ReasonTravel) ELSE r1
    IN  r2

\* a variant in which a reason once set is kept
ExclusionReasonFirstWins(issue_lower) ==
    IF VoltageHit(issue_lower) THEN Some(ReasonVoltage)
    ELSE IF TravelDamageHit(issue_lower) THEN Some(ReasonTravel)
    ELSE IF FitmentHit(issue_lower) THEN Some(ReasonFitment)
    ELSE None

\* the three checks, each overwriting exclusion_reason when it fires
ExclusionReason(issue_lower) ==
    LET r1 == IF VoltageHit(issue_lower) THEN Some(ReasonVoltage) ELSE None
        r2 == IF TravelDamageHit(issue_lower) THEN Some(ReasonTravel) ELSE r1
        r3 == IF FitmentHit(issue_lower) THEN Some(ReasonFitment) ELSE r2
    IN  r3

\* a variant that wants the purchase date not to be in the future
WithinLimitNotFuture(days, max_days) == 0 <= days /\ days <= max_days
\* a variant with an exclusive boundary
WithinLimitExclusive(days, max_days) == days < max_days
\* in_window: None when there is no purchase date, else days <= max_days
WithinLimit(days, max_days) == days <= max_days
MaxDays(policy) == policy.warranty_period_months * 30
\* a variant in which a missing address leaves the window unknown
InWindowNeedsAddress(claim, policy, today) ==
    IF claim.purchase_date # None /\ Truthy(claim.shipping_address)
    THEN Some(WithinLimit(DaysBetween(today, claim.purchase_date[1]), MaxDays(policy)))
    ELSE None
InWindow(claim, policy, today) ==
    IF claim.purchase_date # None
    THEN Some(WithinLimit(DaysBetween(today, claim.purchase_date[1]), MaxDays(policy)))
    ELSE None

\* find_policy_exclusion_excerpt: the first excerpt whose section starts with "exclusion"
RECURSIVE FindPolicyExclusionExcerpt(_)
FindPolicyExclusionExcerpt(excerpts) ==
    IF excerpts = <<>> THEN None
    ELSE IF StartsWith(Lower(Head(excerpts).section), <<"e","x","c","l","u","s","i","o","n">>)
         THEN Some(Head(excerpts).excerpt)
         ELSE FindPolicyExclusionExcerpt(Tail(excerpts))

QModel == "Please confirm the exact product model name (e.g., AeroDry Pro 1800)."
QProof == "Please provide proof of purchase (invoice/receipt or order ID)."
QDate == "Please confirm the exact purchase date (or share the receipt showing the date)."
QAddress == "Please provide your shipping/return address so we can generate the return label."
UProduct == "Product model missing; policy match may be incorrect."
UAddress == "Shipping address missing; required to generate return label after approval."
ALastMonth == "Customer indicates purchase within the last month; likely within warranty window."
ANoDate == "Purchase date missing; cannot confirm warranty window without follow-up."

\* [x] if cond else []
When(cond, x) == IF cond THEN <<x>> ELSE <<>>

\* a variant that is sure of every approval in the window
ApproveConfidenceAlwaysHigh(proof) == "high"
\* "high" if claim.proof_of_purchase_present else "medium"
ApproveConfidence(proof) == IF proof THEN "high" ELSE "medium"

\* the recommendation rules: [recommendation, confidence, reasoning]
Resolve(exclusion_reason, in_window, last_month, proof, excerpts) ==
    IF exclusion_reason # None
    THEN [recommendation |-> "REJECT", confidence |-> "high",
          reasoning |->
            << Ln("Claim matches an exclusion condition: {exclusion_reason}",
                  <<exclusion_reason[1]>>) >>
            \o (LET ex_ref == FindPolicyExclusionExcerpt(excerpts)
                IN  IF Truthy(ex_ref)
                    THEN << Ln("Policy basis (exclusion excerpt): {ex_ref}", <<ex_ref[1]>>) >>
                    ELSE << Ln("Policy basis: exclusion section applies (see referenced excerpts).", <<>>) >>)]
    ELSE IF in_window = Some(TRUE)
    THEN [recommendation |-> "APPROVE",
          confidence |-> ApproveConfidence(proof),
          reasoning |->
            << Ln("No applicable exclusions found in the referenced policy sections.", <<>>),
               Ln("Claim is within the warranty window; approval is recommended.", <<>>) >>]
    ELSE IF in_window = Some(FALSE)
    THEN [recommendation |-> "REJECT", confidence |-> "high",
          reasoning |->
            << Ln("Purchase date indicates the claim is outside the warranty window; rejection is recommended.", <<>>) >>]
    ELSE IF last_month
    THEN [recommendation |-> "APPROVE", confidence |-> "medium",
          reasoning |->
            << Ln("Customer indicates purchase was last month; likely within warranty window.", <<>>),
               Ln("Approval is recommended, but exact purchase date must be confirmed.", <<>>) >>]
    ELSE [recommendation |-> "NEED_MORE_INFO", confidence |-> "low",
          reasoning |->
            << Ln("Cannot confirm warranty eligibility without purchase date.", <<>>) >>]

\* de-duplicate, keeping the first occurrence of each question, in order
RECURSIVE Dedupe(_, _)
Dedupe(qs, seen) ==
    IF qs = <<>> THEN <<>>
    ELSE IF Head(qs) \in seen THEN Dedupe(Tail(qs), seen)
    ELSE <<Head(qs)>> \o Dedupe(Tail(qs), seen \cup {Head(qs)})

\* a variant that asks for a missing address whatever the recommendation
AsksAddressWheneverMissing(recommendation, claim) == ~Truthy(claim.shipping_address)

\* does the missing address add the address question to the follow-ups?
AsksAddress(recommendation, claim) ==
    recommendation = "APPROVE" /\ ~Truthy(claim.shipping_address)

LogisticsLine == Ln("Shipping address is needed to proceed with logistics after approval (does not affect eligibility).", <<>>)
GenericLine == Ln("Recommendation based on available claim details and referenced policy sections.", <<>>)

\* a variant that keeps only the logistics line and has no fallback
ReasoningOnlyLogistics(window_reasoning, rule_reasoning, asks) == When(asks, LogisticsLine)

\* the reasoning list: the window check, the lines of the rule that applied,
\* the logistics line, and the generic line when all of that is empty
ReasoningOf(window_reasoning, rule_reasoning, asks) ==
    IF window_reasoning \o rule_reasoning \o When(asks, LogisticsLine) = <<>>
    THEN <<GenericLine>>
    ELSE window_reasoning \o rule_reasoning \o When(asks, LogisticsLine)

\* DecisionTool.build_review_packet; today is what date.today() returns during
\* the call and created_at what datetime.utcnow() returns
BuildReviewPacket(packet_id, email_id, claim, policy, policy_selection_reason, referenced_excerpts, today, created_at) ==
    LET issue_lower == Lower(claim.issue_description)
        has_product == Truthy(claim.product_name)
        has_date == claim.purchase_date # None
        has_proof == claim.proof_of_purchase_present
        has_address == Truthy(claim.shipping_address)
        last_month == Contains(issue_lower, KwLastMonth)
        evidence_checklist ==
            [product_name |-> has_product, purchase_date |-> has_date,
             proof_of_purchase |-> has_proof, shipping_address |-> has_address]
        facts ==
            << Ln("Issue reported: {issue_description}", <<claim.issue_description>>),
               Ln("Selected policy: {product_name} ({policy_id})",
                  <<policy.product_name, policy.policy_id>>),
               Ln("Policy selection reason: {policy_selection_reason}",
                  <<policy_selection_reason>>) >>
            \o (IF has_product
                THEN << Ln("Extracted product: {product_name}", <<claim.product_name[1]>>) >>
                ELSE << Ln("Product model not confidently identified from the email.", <<>>) >>)
            \o (IF has_date
                THEN << Ln("Purchase date provided: {purchase_date}",
                           <<IsoFormat(claim.purchase_date[1])>>) >>
                ELSE << Ln("Exact purchase date not provided in the email.", <<>>) >>)
            \o << Ln(IF has_proof THEN "Proof of purchase present: True"
                     ELSE "Proof of purchase present: False", <<>>) >>
            \o (IF referenced_excerpts # <<>>
                THEN << Ln("Relevant policy sections reviewed (referenced excerpts):", <<>>) >>
                     \o [i \in DOMAIN referenced_excerpts |->
                           Ln("- [{section}] {excerpt}",
                              <<referenced_excerpts[i].section, referenced_excerpts[i].excerpt>>)]
                ELSE <<>>)
        in_window == InWindow(claim, policy, today)
        window_reasoning ==
            IF has_date
            THEN << Ln("Warranty window check: {days} days since purchase (limit ~{max_days} days).",
                       << IntToText(DaysBetween(today, claim.purchase_date[1])),
                          IntToText(MaxDays(policy)) >>) >>
            ELSE <<>>
        assumptions ==
            IF has_date THEN <<>>
            ELSE IF last_month THEN <<ALastMonth>> ELSE <<ANoDate>>
        exclusion_reason == ExclusionReason(issue_lower)
        followups0 ==
            When(~has_product, QModel) \o When(~has_proof, QProof) \o When(~has_date, QDate)
        uncertainty ==
            When(~has_product, UProduct) \o When(~has_address, UAddress)
        res == Resolve(exclusion_reason, in_window, last_month, has_proof, referenced_excerpts)
        asks == AsksAddress(res.recommendation, claim)
        followups == followups0 \o When(asks, QAddress)
        reasoning == ReasoningOf(window_reasoning, res.reasoning, asks)
    IN  [packet_id |-> packet_id,
         email_id |-> email_id,
         created_at |-> created_at,
         extracted |-> claim,
         selected_policy_id |-> policy.policy_id,
         selected_policy_product_name |-> policy.product_name,
         policy_selection_reason |-> policy_selection_reason,
         referenced_policy_excerpts |-> referenced_excerpts,
         evidence_checklist |-> evidence_checklist,
         recommendation |-> res.recommendation,
         confidence |-> res.confidence,
         uncertainty_notes |-> uncertainty,
         facts |-> facts,
         assumptions |-> assumptions,
         reasoning |-> reasoning,
         triage_label |-> "WARRANTY_CLAIM",
         routing_notes |-> <<>>,
         customer_followup_questions |-> Dedupe(followups, {}),
         human_decision |-> None]

(***************************************************************************)
(* src/tools/label_generator.py                                            *)
(***************************************************************************)
AddressMissing == <<"C","U","S","T","O","M","E","R","_","A","D","D","R","E","S","S","_","M","I","S","S","I","N","G">>
HairDryer == <<"H","a","i","r"," ","D","r","y","e","r">>

\* LabelGenerator.generate: the file written to the outbox; its name is returned
Generate(claim, email_id, label_id) ==
    [filename |-> <<"return_label", email_id, label_id>>,
     to_address |-> IF Truthy(claim.shipping_address) THEN claim.shipping_address[1]
                    ELSE AddressMissing,
     item |-> IF Truthy(claim.product_name) THEN claim.product_name[1]
              ELSE IF Truthy(claim.product_model_hint) THEN claim.product_model_hint[1]
              ELSE HairDryer]

(***************************************************************************)
(* src/tools/email_writer.py                                               *)
(***************************************************************************)
DefaultName == <<"C","u","s","t","o","m","e","r">>
DefaultProduct == <<"y","o","u","r"," ","A","e","r","o","D","r","y"," ","h","a","i","r"," ","d","r","y","e","r">>
DefaultReason == <<"t","h","e"," ","w","a","r","r","a","n","t","y"," ","p","o","l","i","c","y"," ","t","e","r","m","s">>
DefaultQuestions ==
    << "Please provide your proof of purchase (Amazon invoice or order ID).",
       "Please confirm the purchase date.",
       "Please confirm the exact product model name.",
       "Please provide your shipping address." >>

\* a drafted email: which text was rendered, and the values rendered into it
Email(kind, decision, name, product, label_ref, reason, questions) ==
    [kind |-> kind, decision |-> decision, name |-> name, product |-> product,
     label_ref |-> label_ref, reason |-> reason, questions |-> questions]

\* which template a recommendation selects
TemplateFor(recommendation) ==
    IF recommendation = "APPROVE" THEN "approve"
    ELSE IF recommendation = "REJECT" THEN "reject"
    ELSE "more_info"

\* EmailWriter._draft_template
DraftTemplate(packet, policy, return_label_ref) ==
    LET c == packet.extracted
        name == IF Truthy(c.customer_name) THEN c.customer_name[1] ELSE DefaultName
        product == IF Truthy(c.product_name) THEN c.product_name[1]
                   ELSE IF Truthy(c.product_model_hint) THEN c.product_model_hint[1]
                   ELSE DefaultProduct
        kind == TemplateFor(packet.recommendation)
    IN  IF kind = "approve"
        THEN Email("approve", packet.recommendation, name, product, return_label_ref, <<>>, <<>>)
        ELSE IF kind = "reject"
        THEN LET exclusion_line == FindPolicyExclusionExcerpt(packet.referenced_policy_excerpts)
             IN  Email("reject", packet.recommendation, name, product, None,
                       IF Truthy(exclusion_line) THEN exclusion_line[1] ELSE DefaultReason, <<>>)
        ELSE Email("more_info", packet.recommendation, name, product, None, <<>>,
                   IF packet.customer_followup_questions # <<>>
                   THEN packet.customer_followup_questions ELSE DefaultQuestions)

\* EmailWriter._draft_with_llm: the backend's prose is opaque; what is recorded
\* is the prompt context it was given (decision, names, label reference)
DraftWithLlm(packet, policy, return_label_ref) ==
    LET c == packet.extracted
    IN  Email("llm", packet.recommendation,
              IF Truthy(c.customer_name) THEN c.customer_name[1] ELSE DefaultName,
              IF Truthy(c.product_name) THEN c.product_name[1]
              ELSE IF Truthy(c.product_model_hint) THEN c.product_model_hint[1]
              ELSE <<"U","n","k","n","o","w","n"," ","p","r","o","d","u","c","t">>,
              return_label_ref, <<>>, <<>>)

\* the outcomes of a call to the optional language-model backend
LlmOutcomes == {"absent", "raises", "ok"}

\* EmailWriter.draft
Draft(packet, policy, return_label_ref, llm) ==
    IF llm = "ok" THEN DraftWithLlm(packet, policy, return_label_ref)
    ELSE DraftTemplate(packet, policy, return_label_ref)

(***************************************************************************)
(* src/orchestrator.py, phase 2                                            *)
(***************************************************************************)
HumanDecisions == {"APPROVED", "REJECTED", "MORE_INFO_REQUESTED"}

\* a variant in which the engine's rejection blocks the logistics step as well
AddressOrRejectionBlocks(packet) ==
    ~Truthy(packet.extracted.shipping_address) \/ packet.recommendation = "REJECT"
\* a variant in which a missing address does not block
AddressNeverBlocks(packet) == FALSE
\* on APPROVED: is the logistics step blocked for want of an address?
AddressBlocks(packet) == ~Truthy(packet.extracted.shipping_address)

\* a variant that takes a decision it does not know for a rejection
DecisionToRecommendationClosed(human_decision) ==
    IF human_decision = "APPROVED" THEN "APPROVE"
    ELSE IF human_decision = "MORE_INFO_REQUESTED" THEN "NEED_MORE_INFO"
    ELSE "REJECT"
\* a variant that leaves a rejection as a request for information
DecisionToRecommendationLenient(human_decision) ==
    IF human_decision = "APPROVED" THEN "APPROVE" ELSE "NEED_MORE_INFO"
\* the recommendation the three non-blocked branches write into the packet
DecisionToRecommendation(human_decision) ==
    IF human_decision = "APPROVED" THEN "APPROVE"
    ELSE IF human_decision = "REJECTED" THEN "REJECT"
    ELSE "NEED_MORE_INFO"

\* WarrantyClaimsOrchestrator.draft_outputs_after_human_decision:
\* the packet as mutated, the returned dict, the tools called and the labels written
DraftOutputsAfterHumanDecision(pkt, pol, human_decision, llm, label_id) ==
    IF human_decision = "APPROVED" /\ AddressBlocks(pkt)
    THEN LET p1 == [pkt EXCEPT !.recommendation = "NEED_MORE_INFO",
                               !.customer_followup_questions = <<QAddress>>]
         IN  [packet |-> p1,
              drafted_email |-> Draft(p1, pol, None, llm),
              label_ref |-> None,
              calls |-> <<"email_writer.draft">>,
              labels |-> {}]
    ELSE IF human_decision = "APPROVED"
    THEN LET p1 == [pkt EXCEPT !.recommendation = DecisionToRecommendation(human_decision)]
             label == Generate(p1.extracted, p1.email_id, label_id)
         IN  [packet |-> p1,
              drafted_email |-> Draft(p1, pol, Some(label.filename), llm),
              label_ref |-> Some(label.filename),
              calls |-> <<"label_generator.generate", "email_writer.draft">>,
              labels |-> {label}]
    ELSE LET p1 == [pkt EXCEPT !.recommendation = DecisionToRecommendation(human_decision)]
         IN  [packet |-> p1,
              drafted_email |-> Draft(p1, pol, None, llm),
              label_ref |-> None,
              calls |-> <<"email_writer.draft">>,
              labels |-> {}]

(***************************************************************************)
(* src/schemas.py: EmailMessage                                            *)
(***************************************************************************)
EmailMessage(email_id, subject, body, customer_name, attachments) ==
    [email_id |-> email_id, subject |-> subject, body |-> body,
     customer_name |-> customer_name, customer_email |-> None, attachments |-> attachments]

\* a or b, for Optional[str] operands
PyOr(a, b) == IF Truthy(a) THEN a ELSE b

(***************************************************************************)
(* src/tools/triage_tool.py                                                *)
(***************************************************************************)
\* the character U+2019 (right single quotation mark), one element of a text
RightQuote == "U+2019"

SpamSignals == { <<"s","e","o">>, <<"m","a","r","k","e","t","i","n","g">>, <<"p","a","r","t","n","e","r","s","h","i","p">>, <<"p","r","o","m","o","t","i","o","n">>, <<"a","d","s">>,
                 <<"a","d","v","e","r","t","i","s","i","n","g">>, <<"a","g","e","n","c","y">> }
ClaimSignals ==
    { <<"w","a","r","r","a","n","t","y">>, <<"c","l","a","i","m">>, <<"r","e","p","l","a","c","e">>, <<"r","e","p","l","a","c","e","m","e","n","t">>, <<"r","e","f","u","n","d">>, <<"r","e","t","u","r","n">>,
      <<"b","o","u","g","h","t">>, <<"p","u","r","c","h","a","s","e">>, <<"p","u","r","c","h","a","s","e","d">>, <<"o","r","d","e","r">>, <<"i","n","v","o","i","c","e">>, <<"r","e","c","e","i","p","t">>,
      <<"d","r","y","e","r">>, <<"h","a","i","r"," ","d","r","y","e","r">>, <<"a","e","r","o","d","r","y">>,
      <<"s","t","o","p","p","e","d">>, <<"n","o","t"," ","w","o","r","k","i","n","g">>, <<"w","o","n">> \o <<RightQuote>> \o <<"t">>, <<"w","o","n","'","t">>,
      <<"d","o","e","s","n","'","t">>, <<"n","o"," ","p","o","w","e","r">>,
      <<"o","v","e","r","h","e","a","t">>, <<"o","v","e","r","h","e","a","t","i","n","g">>, <<"s","h","u","t","s"," ","o","f","f">>, <<"b","u","r","n","i","n","g">>, <<"s","p","a","r","k","s">>,
      <<"t","o","u","c","h">>, <<"c","o","n","t","r","o","l","s">>, <<"f","i","r","m","w","a","r","e">>,
      <<"a","t","t","a","c","h","m","e","n","t">>, <<"n","o","z","z","l","e">>, <<"d","i","f","f","u","s","e","r">>, <<"d","o","e","s","n","'","t"," ","f","i","t">>, <<"f","i","t","s"," ","s","e","c","u","r","e","l","y">>,
      <<"c","r","a","c","k","e","d">>, <<"b","r","o","k","e","n">>, <<"d","r","o","p","p","e","d">>,
      <<"t","r","a","v","e","l">>, <<"f","l","i","g","h","t">>, <<"s","u","i","t","c","a","s","e">> }

ReasonSpam == <<"S","p","a","m","/","m","a","r","k","e","t","i","n","g"," ","o","u","t","r","e","a","c","h"," ","s","i","g","n","a","l","s"," ","d","e","t","e","c","t","e","d">>
ReasonClaimSignals == <<"P","r","o","d","u","c","t"," ","i","s","s","u","e","/","p","u","r","c","h","a","s","e","/","d","a","m","a","g","e"," ","s","i","g","n","a","l","s"," ","d","e","t","e","c","t","e","d">>
ReasonNoSignals == <<"N","o"," ","p","r","o","d","u","c","t"," ","i","s","s","u","e","/","p","u","r","c","h","a","s","e","/","w","a","r","r","a","n","t","y"," ","i","n","d","i","c","a","t","o","r","s"," ","d","e","t","e","c","t","e","d">>

TriageResult(label, reason) == [label |-> label, reason |-> reason]

\* a variant that looks for claim signals before spam signals
HeuristicClaimFirst(text) ==
    IF \E k \in ClaimSignals : Contains(text, k)
    THEN TriageResult("WARRANTY_CLAIM", ReasonClaimSignals)
    ELSE IF \E s \in SpamSignals : Contains(text, s)
    THEN TriageResult("NON_CLAIM", ReasonSpam)
    ELSE TriageResult("NON_CLAIM", ReasonNoSignals)

\* the label and reason for the lowercased "subject body" text
HeuristicOn(text) ==
    IF \E s \in SpamSignals : Contains(text, s)
    THEN TriageResult("NON_CLAIM", ReasonSpam)
    ELSE IF \E k \in ClaimSignals : Contains(text, k)
    THEN TriageResult("WARRANTY_CLAIM", ReasonClaimSignals)
    ELSE TriageResult("NON_CLAIM", ReasonNoSignals)

\* TriageTool._heuristic
Heuristic(email) == HeuristicOn(Lower(email.subject \o <<" ">> \o email.body))

\* what the backend's answer validates to: a TriageResult, or nothing when the
\* backend is absent, raises, or answers something that fails validation
ReasonFromLlm == <<"c","l","a","s","s","i","f","i","e","d"," ","b","y"," ","t","h","e"," ","m","o","d","e","l">>

\* a variant that answers NON_CLAIM when the backend gives nothing
ClassifyFailClosed(email, llm_out) ==
    IF llm_out # None THEN llm_out[1] ELSE TriageResult("NON_CLAIM", ReasonNoSignals)
\* TriageTool.classify
Classify(email, llm_out) == IF llm_out # None THEN llm_out[1] ELSE Heuristic(email)

(***************************************************************************)
(* src/tools/extraction_tool.py                                            *)
(***************************************************************************)
LLMExtract(customer_name, product_name, purchase_date, order_id, issue_description, evidence_provided, proof, shipping_address) ==
    [customer_name |-> customer_name, customer_email |-> None, customer_phone |-> None,
     product_name |-> product_name, product_model_hint |-> None, serial_number |-> None,
     purchase_date |-> purchase_date, order_id |-> order_id, retailer |-> Some(<<"A","m","a","z","o","n">>),
     issue_description |-> issue_description, shipping_address |-> shipping_address,
     evidence_provided |-> evidence_provided, proof_of_purchase_present |-> proof]

WordChars == LowerSet \cup UpperSet \cup DigitSet \cup {"_"}
\* \b at the gap before position i of s
IsBoundary(s, i) ==
    LET before == i > 1 /\ s[i - 1] \in WordChars
        after == i <= Len(s) /\ s[i] \in WordChars
    IN  before # after

\* the value of a run of decimal digits
DigitValue(c) == CHOOSE v \in 0..9 : Digits[v + 1] = c
RECURSIVE ToNat(_)
ToNat(t) == IF t = <<>> THEN 0 ELSE ToNat(SubSeq(t, 1, Len(t) - 1)) * 10 + DigitValue(t[Len(t)])

\* \b\d{4}-\d{2}-\d{2}\b matches s at position i
IsoDateAt(s, i) ==
    /\ i + 9 <= Len(s)
    /\ \A k \in {0, 1, 2, 3, 5, 6, 8, 9} : s[i + k] \in DigitSet
    /\ s[i + 4] = "-" /\ s[i + 7] = "-"
    /\ IsBoundary(s, i) /\ IsBoundary(s, i + 10)

\* re.search of the date pattern: the leftmost match, if any.  The emails
\* considered write their dates as YYYY-MM-DD; the month-name alternative of
\* the pattern matches none of them.
DateMatch(text) ==
    IF \E i \in 1..Len(text) : IsoDateAt(text, i)
    THEN Some(SubSeq(text, (CHOOSE i \in 1..Len(text) :
                               IsoDateAt(text, i) /\ \A j \in 1..(i - 1) : ~IsoDateAt(text, j)),
                     (CHOOSE i \in 1..Len(text) :
                               IsoDateAt(text, i) /\ \A j \in 1..(i - 1) : ~IsoDateAt(text, j)) + 9))
    ELSE None

\* ExtractionTool._parse_date_safe on a YYYY-MM-DD text: the date, or None
\* when the parser raises (no such day)
ParseDateSafe(s) ==
    IF Len(s) = 10 /\ IsoDateAt(s, 1)
       /\ ValidDate(ToNat(SubSeq(s, 1, 4)), ToNat(SubSeq(s, 6, 7)), ToNat(SubSeq(s, 9, 10)))
    THEN Some(Date(ToNat(SubSeq(s, 1, 4)), ToNat(SubSeq(s, 6, 7)), ToNat(SubSeq(s, 9, 10))))
    ELSE None

\* the first position >= j of s that is past the end or not in the set
RunEnd(s, j, set) ==
    CHOOSE k \in j..(Len(s) + 1) :
        (k = Len(s) + 1 \/ s[k] \notin set) /\ \A m \in j..(k - 1) : s[m] \in set

IdChars == LowerSet \cup UpperSet \cup DigitSet \cup {"-"}
HasAt(s, i, k) == i + Len(k) - 1 <= Len(s) /\ SubSeq(s, i, i + Len(k) - 1) = k

\* (order\s*(id|#)\s*[:\-]?\s*)([A-Za-z0-9\-]+) at position i of the text (low
\* is its lowercase): where group 3 starts, or 0 when there is no match at i
OrderIdStartAfterTag(text, k) ==
    IF k <= Len(text) /\ text[k] \in {":", "-"}
       /\ RunEnd(text, k + 1, Whitespace) <= Len(text)
       /\ text[RunEnd(text, k + 1, Whitespace)] \in IdChars
    THEN RunEnd(text, k + 1, Whitespace)
    ELSE IF k <= Len(text) /\ text[k] \in IdChars THEN k
    ELSE 0
OrderIdStartAfterOrder(text, low, j) ==
    IF HasAt(low, j, <<"i","d">>) THEN OrderIdStartAfterTag(text, RunEnd(text, j + 2, Whitespace))
    ELSE IF HasAt(low, j, <<"#">>) THEN OrderIdStartAfterTag(text, RunEnd(text, j + 1, Whitespace))
    ELSE 0
OrderIdStart(text, low, i) ==
    IF HasAt(low, i, <<"o","r","d","e","r">>)
    THEN OrderIdStartAfterOrder(text, low, RunEnd(text, i + 5, Whitespace))
    ELSE 0

\* m.group(3) of the leftmost match, or None
OrderIdAt(text, g) == Some(SubSeq(text, g, RunEnd(text, g, IdChars) - 1))
OrderIdFrom(text, low) ==
    IF \E i \in 1..Len(text) : OrderIdStart(text, low, i) > 0
    THEN OrderIdAt(text, OrderIdStart(text, low,
                     CHOOSE i \in 1..Len(text) :
                        OrderIdStart(text, low, i) > 0
                        /\ \A j \in 1..(i - 1) : OrderIdStart(text, low, j) = 0))
    ELSE None
OrderId(text) == OrderIdFrom(text, Lower(text))

\* the first known product whose lowercased name occurs in the lowercased text
RECURSIVE ProductGuess(_, _)
ProductGuess(known_products, low) ==
    IF known_products = <<>> THEN None
    ELSE IF Contains(low, Lower(Head(known_products))) THEN Some(Head(known_products))
    ELSE ProductGuess(Tail(known_products), low)

ProofWords == { <<"i","n","v","o","i","c","e">>, <<"r","e","c","e","i","p","t">>, <<"o","r","d","e","r">> }
ProofExtensions == { <<".","p","d","f">>, <<".","p","n","g">>, <<".","j","p","g">>, <<".","j","p","e","g">> }
NamesProof(a) == \E w \in ProofWords : Contains(Lower(a), w)
HasProofExtension(a) == \E e \in ProofExtensions : EndsWith(Lower(a), e)

IssueLimit == 400
Ellipsis == <<".",".",".">>
\* a variant that cuts without the marker
TruncateNoMarker(issue_desc) ==
    IF Len(issue_desc) > 400 THEN SubSeq(issue_desc, 1, 400) ELSE issue_desc
\* the stripped body, cut to IssueLimit characters plus "..." when longer
Truncate(issue_desc) ==
    IF Len(issue_desc) > IssueLimit THEN SubSeq(issue_desc, 1, IssueLimit) \o Ellipsis
    ELSE issue_desc

PurchaseDateIso(date_match) ==
    IF date_match # None /\ ParseDateSafe(date_match[1]) # None
    THEN Some(IsoFormat(ParseDateSafe(date_match[1])[1]))
    ELSE None

\* a variant that reads a "Ship to" line of the body as the shipping address
ShipTo == <<"S","h","i","p"," ","t","o"," ">>
AddressAfter(body, i) == SubSeq(body, i + Len(ShipTo), Len(body))
HeuristicExtractReadingAddress(email, known_products) ==
    LLMExtract(email.customer_name,
               ProductGuess(known_products, Lower(email.subject \o <<"\n">> \o email.body)),
               PurchaseDateIso(DateMatch(email.subject \o <<"\n">> \o email.body)),
               OrderId(email.subject \o <<"\n">> \o email.body),
               Truncate(Strip(email.body)),
               IF email.attachments # <<>> THEN << <<"a","t","t","a","c","h","m","e","n","t","s","_","p","r","e","s","e","n","t">> >> ELSE <<>>,
               \E i \in DOMAIN email.attachments : NamesProof(email.attachments[i]),
               IF Contains(email.body, ShipTo)
               THEN Some(AddressAfter(email.body, CHOOSE i \in DOMAIN email.body : HasAt(email.body, i, ShipTo)))
               ELSE None)

\* ExtractionTool._heuristic_extract
HeuristicExtract(email, known_products) ==
    LLMExtract(email.customer_name,
               ProductGuess(known_products, Lower(email.subject \o <<"\n">> \o email.body)),
               PurchaseDateIso(DateMatch(email.subject \o <<"\n">> \o email.body)),
               OrderId(email.subject \o <<"\n">> \o email.body),
               Truncate(Strip(email.body)),
               IF email.attachments # <<>> THEN << <<"a","t","t","a","c","h","m","e","n","t","s","_","p","r","e","s","e","n","t">> >> ELSE <<>>,
               \E i \in DOMAIN email.attachments : NamesProof(email.attachments[i]),
               None)

\* re.sub(r"[^a-z0-9]+", "", s)
Clean(s) == SelectSeq(s, LAMBDA c : c \in LowerSet \cup DigitSet)

\* the first known product that contains, or is contained in, the raw name
RECURSIVE FirstSubstringMatch(_, _)
FirstSubstringMatch(known_products, raw_l) ==
    IF known_products = <<>> THEN <<>>
    ELSE IF Contains(raw_l, Lower(Head(known_products)))
            \/ Contains(Lower(Head(known_products)), raw_l)
         THEN Head(known_products)
         ELSE FirstSubstringMatch(Tail(known_products), raw_l)
\* the first known product whose cleaned name contains the cleaned raw name
RECURSIVE FirstCleanMatch(_, _)
FirstCleanMatch(known_products, raw_clean) ==
    IF known_products = <<>> THEN <<>>
    ELSE IF raw_clean # <<>> /\ Contains(Clean(Lower(Head(known_products))), raw_clean)
         THEN Head(known_products)
         ELSE FirstCleanMatch(Tail(known_products), raw_clean)

\* ExtractionTool._normalize_product
NormalizeProduct(raw, known_products) ==
    IF raw = <<>> THEN <<>>
    ELSE IF FirstSubstringMatch(known_products, Lower(raw)) # <<>>
    THEN FirstSubstringMatch(known_products, Lower(raw))
    ELSE FirstCleanMatch(known_products, Clean(Lower(raw)))

\* the missing_fields list of _to_claim_extract
MissingFields(email, data, product_name, parsed_purchase_date, proof_present, require_address) ==
    When(~(Truthy(data.customer_name) \/ Truthy(email.customer_name)), "customer_name")
    \o When(product_name = <<>>, "product_name")
    \o When(parsed_purchase_date = None, "purchase_date")
    \o When(data.issue_description = <<>> \/ Strip(data.issue_description) = <<>>,
            "issue_description")
    \o When(~proof_present, "proof_of_purchase")
    \o When(require_address /\ ~Truthy(data.shipping_address), "shipping_address")

\* a variant whose "low" starts one entry later
ConfidenceOfLate(missing) ==
    IF Len(missing) > 3 THEN "low" ELSE IF Len(missing) >= 1 THEN "medium" ELSE "high"
LowAt == 3
MediumAt == 1
ConfidenceOf(missing) ==
    IF Len(missing) >= LowAt THEN "low"
    ELSE IF Len(missing) >= MediumAt THEN "medium"
    ELSE "high"

ClaimOf(email, data, product_name, parsed_purchase_date, proof_present, missing) ==
    [customer_name |-> PyOr(data.customer_name, email.customer_name),
     customer_email |-> PyOr(data.customer_email, email.customer_email),
     customer_phone |-> data.customer_phone,
     product_name |-> IF product_name # <<>> THEN Some(product_name) ELSE None,
     product_model_hint |-> data.product_model_hint,
     serial_number |-> data.serial_number,
     purchase_date |-> parsed_purchase_date,
     order_id |-> data.order_id,
     retailer |-> PyOr(data.retailer, Some(<<"A","m","a","z","o","n">>)),
     issue_description |-> Strip(data.issue_description),
     evidence_provided |-> data.evidence_provided,
     proof_of_purchase_present |-> proof_present,
     shipping_address |-> data.shipping_address,
     missing_fields |-> missing,
     extraction_confidence |-> ConfidenceOf(missing)]

ClaimWith(email, data, product_name, parsed_purchase_date, proof_present, require_address) ==
    ClaimOf(email, data, product_name, parsed_purchase_date, proof_present,
            MissingFields(email, data, product_name, parsed_purchase_date, proof_present,
                          require_address))

\* ExtractionTool._to_claim_extract
ToClaimExtract(email, data, known_products, require_address) ==
    ClaimWith(email, data,
              NormalizeProduct(OrEmpty(PyOr(data.product_name, data.product_model_hint)),
                               known_products),
              IF Truthy(data.purchase_date) THEN ParseDateSafe(data.purchase_date[1]) ELSE None,
              data.proof_of_purchase_present
                \/ \E i \in DOMAIN email.attachments :
                      HasProofExtension(email.attachments[i]) /\ NamesProof(email.attachments[i]),
              require_address)

\* ExtractionTool.extract: the chain ends in a JSON parser, whose result (a
\* dict) has no attribute "content"; the AttributeError is caught with every
\* other failure of the backend, so llm_data is None whenever the backend is
\* present, and the heuristic runs
Extract(email, known_products, require_address) ==
    ToClaimExtract(email, HeuristicExtract(email, known_products), known_products,
                   require_address)

(***************************************************************************)
(* src/tools/inbox_tool.py: a file is [stem, valid, raw], raw its JSON      *)
(* object and valid whether that object validates as an EmailMessage       *)
(***************************************************************************)
InboxFile(stem, valid, raw) == [stem |-> stem, valid |-> valid, raw |-> raw]

\* InboxTool.load_email: email_id defaults to the file's stem
LoadEmail(file) ==
    [file.raw EXCEPT !.email_id = IF file.raw.email_id = None THEN file.stem
                                  ELSE file.raw.email_id[1]]

\* does <email_id>.json exist in the directory?
Exists(dir, email_id) == \E f \in dir : f.stem = email_id
FileOf(dir, email_id) == CHOOSE f \in dir : f.stem = email_id

(***************************************************************************)
(* The optional language-model backend, as the tools see it                *)
(***************************************************************************)
\* the ways a call to the backend fails: no backend configured, the call
\* raises, the call times out (the client raises), the answer is not JSON,
\* the JSON does not validate against the schema
BackendFailures == {"absent", "raises", "timeout", "malformed", "invalid"}

\* TriageTool.classify: what the chain's answer validates to
TriageBackendOutcomes == BackendFailures \cup {"claim", "non_claim"}
TriageOutput(outcome) ==
    IF outcome = "claim" THEN Some(TriageResult("WARRANTY_CLAIM", ReasonFromLlm))
    ELSE IF outcome = "non_claim" THEN Some(TriageResult("NON_CLAIM", ReasonFromLlm))
    ELSE None

\* ExtractionTool.extract: llm_data after the try block.  A well-formed
\* answer arrives from the JSON parser as a dict, reading its .content raises
\* AttributeError, and that is caught with every other failure
ExtractBackendOutcomes == BackendFailures \cup {"ok"}
LlmData(outcome) == None

(***************************************************************************)
(* ClaimExtract with the defaults of src/schemas.py                        *)
(***************************************************************************)
ClaimExtract(customer_name, product_name, product_model_hint, purchase_date, issue_description, proof, shipping_address) ==
    [customer_name |-> customer_name, customer_email |-> None, customer_phone |-> None,
     product_name |-> product_name, product_model_hint |-> product_model_hint,
     serial_number |-> None, purchase_date |-> purchase_date, order_id |-> None,
     retailer |-> None, issue_description |-> issue_description,
     evidence_provided |-> <<>>, proof_of_purchase_present |-> proof,
     shipping_address |-> shipping_address, missing_fields |-> <<>>,
     extraction_confidence |-> "medium"]

(***************************************************************************)
(* The inputs considered                                                   *)
(***************************************************************************)
\* date.today()
Today == Date(2026, 11, 1)

\* purchase dates: tomorrow, and 30, 31, 90 and 91 days before Today
PurchaseDates ==
    { Date(2026, 11, 2), Date(2026, 10, 2), Date(2026, 10, 1),
      Date(2026, 8, 3), Date(2026, 8, 2) }

\* what a customer may write about the issue
IssuePhrases ==
    << <<"T","h","e"," ","m","o","t","o","r"," ","s","t","o","p","p","e","d"," ","w","o","r","k","i","n","g">>,
       <<"u","s","e","d"," ","w","i","t","h"," ","a"," ","2","2","0","V"," ","c","o","n","v","e","r","t","e","r"," ","w","h","i","l","e"," ","t","r","a","v","e","l","i","n","g"," ","a","b","r","o","a","d">>,
       <<"i","t"," ","s","t","o","p","p","e","d"," ","L","a","s","t"," ","M","o","n","t","h">>,
       <<"c","r","a","c","k","e","d"," ","d","u","r","i","n","g"," ","a"," ","f","l","i","g","h","t">>,
       <<"t","h","e"," ","n","o","z","z","l","e"," ","i","s"," ","l","o","o","s","e">>,
       <<"p","a","c","k","e","d"," ","i","n"," ","m","y"," ","s","u","i","t","c","a","s","e">>,
       <<"t","h","e"," ","h","a","n","d","l","e"," ","i","s"," ","b","r","o","k","e","n">> >>

\* the most phrases one issue description is made of
MaxPhrases == 2

RECURSIVE PhrasesOf(_, _)
PhrasesOf(idx, n) ==
    IF n > Len(IssuePhrases) THEN <<>>
    ELSE (IF n \in idx THEN <<IssuePhrases[n]>> ELSE <<>>) \o PhrasesOf(idx, n + 1)

\* issue descriptions: up to MaxPhrases of the phrases, joined by spaces
IssueTexts ==
    { JoinSpace(PhrasesOf(idx, 1)) :
        idx \in {s \in SUBSET (DOMAIN IssuePhrases) : Cardinality(s) <= MaxPhrases} }

Addresses == { None, Some(<<>>), Some(<<"1","2"," ","E","l","m"," ","S","t",","," ","N","e","w","a","r","k",","," ","N","J">>) }
ProductNames == { None, Some(<<"A","e","r","o","D","r","y"," ","P","r","o"," ","1","8","0","0">>), Some(<<"A","e","r","o","D","r","y"," ","T","r","a","v","e","l"," ","M","i","n","i">>) }

OptPurchaseDates == {None} \cup {Some(d) : d \in PurchaseDates}

DefaultCatalog == <<PolicyPro1800, PolicyPro2200, PolicyTravelMini>>

(***************************************************************************)
(* State                                                                   *)
(***************************************************************************)
VARIABLES
    pc,           \* where the run is
    policies,     \* PolicyRetriever._policies
    today,        \* date.today()
    inbox_dir,    \* the files of data/inbox
    rejected_dir, \* the files of data/triage_rejected
    email,        \* the email being processed
    triage,       \* the triage result of the email
    raised,       \* the exception that left the handler, "" when none
    claim,        \* the ClaimExtract of the email
    selection,    \* (policy, reason) returned by select_policy
    excerpts,     \* the excerpts returned by retrieve_excerpts
    packet,       \* the ReviewPacket
    outputs,      \* the dict returned by draft_outputs_after_human_decision
    calls,        \* the tools called by the handler that ran last, in order
    outbox,       \* the label files of data/outbox
    uuids,        \* how many uuid4() values were drawn
    emails,       \* the loaded emails still to be processed
    review_queue, \* the packets written to data/review_queue
    decisions,    \* the decisions written to data/decisions
    drafts,       \* the email drafts written to data/outbox
    match_text,   \* the text given to _best_match_from_text
    match,        \* what _best_match_from_text returned
    backend,      \* what the language-model backend did on the last call made to it
    require_address, \* ExtractionConfig.require_address
    policies_dir, \* the files of PolicyRetrieverConfig.policies_dir
    message       \* the message of the exception raised, None when none

vars == <<pc, policies, today, inbox_dir, rejected_dir, email, triage, raised, claim,
          selection, excerpts, packet, outputs, calls, outbox, uuids, emails, review_queue,
          decisions, drafts, match_text, match, backend, require_address,
                   policies_dir, message>>

(***************************************************************************)
(* The decision engine and the post-decision step on every claim           *)
(***************************************************************************)
InitDecision ==
    /\ pc = "claim"
    /\ policies = DefaultCatalog
    /\ today = Today
    /\ inbox_dir = {}
    /\ rejected_dir = {}
    /\ email = None
    \* the email was triaged as a claim before it was extracted
    /\ triage = Some(TriageResult("WARRANTY_CLAIM", ReasonClaimSignals))
    /\ raised = ""
    \* select_policy and retrieve_excerpts read only the product name, the hint
    \* and the issue description of the claim
    /\ \E pn \in ProductNames, issue \in IssueTexts :
       \E sel \in {SelectPolicy(DefaultCatalog, ClaimExtract(None, pn, None, None, issue, FALSE, None))} :
       \E ex \in {RetrieveExcerpts(sel.policy[1], ClaimExtract(None, pn, None, None, issue, FALSE, None))} :
       \E pd \in OptPurchaseDates, proof \in BOOLEAN, addr \in Addresses :
          /\ claim = Some(ClaimExtract(None, pn, None, pd, issue, proof, addr))
          /\ selection = Some(sel)
          /\ excerpts = ex
    /\ packet = None
    /\ outputs = None
    /\ calls = <<>>
    /\ outbox = {}
    /\ uuids = 0
    /\ emails = <<>>
    /\ review_queue = {}
    /\ decisions = {}
    /\ drafts = {}
    /\ match_text = <<>>
    /\ match = None
    /\ backend = "absent"
    /\ require_address = FALSE
    /\ policies_dir = DirOf(policies)
    /\ message = None

\* build_review_packet on the claim, its selected policy and excerpts
Decide ==
    /\ pc = "claim"
    /\ packet' = Some(BuildReviewPacket(<<"pkt", "e1", uuids>>, "e1", claim[1],
                                         selection[1].policy[1], selection[1].reason,
                                         excerpts, today, <<"utcnow", uuids>>))
    /\ uuids' = uuids + 1
    /\ calls' = <<"decision.build_review_packet">>
    /\ pc' = "built"
    /\ UNCHANGED <<policies, today, inbox_dir, rejected_dir, email, triage, raised, claim,
                   selection, excerpts, outputs, outbox, emails, review_queue, decisions,
                   drafts, match_text, match, backend, require_address,
                   policies_dir, message>>

\* the most calls of build_review_packet on one claim
MaxBuilds == 2

\* a variant whose later call notes its packet id among the facts
DecideAgainNotingCall ==
    /\ pc = "built"
    /\ uuids < MaxBuilds
    /\ packet' = Some([BuildReviewPacket(<<"pkt", "e1", uuids>>, "e1", claim[1],
                                          selection[1].policy[1], selection[1].reason,
                                          excerpts, today, <<"utcnow", uuids>>)
                          EXCEPT !.facts = Append(@, Ln("Packet {packet_id}",
                                                        <<NatToText(uuids)>>))])
    /\ uuids' = uuids + 1
    /\ calls' = <<"decision.build_review_packet">>
    /\ UNCHANGED <<pc, policies, today, inbox_dir, rejected_dir, email, triage, raised,
                   claim, selection, excerpts, outputs, outbox, emails, review_queue,
                   decisions, drafts, match_text, match, backend, require_address,
                   policies_dir, message>>

\* build_review_packet called once more on the same claim, policy, selection
\* reason and excerpts, under a fresh packet id and a later utcnow()
DecideAgain ==
    /\ pc = "built"
    /\ uuids < MaxBuilds
    /\ packet' = Some(BuildReviewPacket(<<"pkt", "e1", uuids>>, "e1", claim[1],
                                         selection[1].policy[1], selection[1].reason,
                                         excerpts, today, <<"utcnow", uuids>>))
    /\ uuids' = uuids + 1
    /\ calls' = <<"decision.build_review_packet">>
    /\ UNCHANGED <<pc, policies, today, inbox_dir, rejected_dir, email, triage, raised,
                   claim, selection, excerpts, outputs, outbox, emails, review_queue,
                   decisions, drafts, match_text, match, backend, require_address,
                   policies_dir, message>>

\* process_email_to_review_packet after the decision tool returned: the
\* traceability notes are added and the packet goes to the review queue
\* a variant that also clears the questions the decision tool listed
StampClearingQuestions(pkt, triage_result) ==
    [pkt EXCEPT !.triage_label = "WARRANTY_CLAIM", !.customer_followup_questions = <<>>,
                !.routing_notes = Append(@, Ln("Triage reason: {reason}", <<triage_result.reason>>))]
\* a variant that stamps the label and adds no note
StampLabelOnly(pkt, triage_result) == [pkt EXCEPT !.triage_label = "WARRANTY_CLAIM"]
\* the traceability notes added to the packet the decision tool returned
Stamp(pkt, triage_result) ==
    [pkt EXCEPT !.triage_label = "WARRANTY_CLAIM",
                !.routing_notes = Append(@, Ln("Triage reason: {reason}",
                                               <<triage_result.reason>>))]

AddTraceability ==
    /\ pc = "built"
    /\ packet' = Some(Stamp(packet[1], triage[1]))
    /\ calls' = <<>>
    /\ pc' = "review"
    /\ UNCHANGED <<policies, today, inbox_dir, rejected_dir, email, triage, raised, claim,
                   selection, excerpts, outputs, outbox, uuids, emails, review_queue,
                   decisions, drafts, match_text, match, backend, require_address,
                   policies_dir, message>>

\* run_demo after the review: the decision is saved, the policy is looked up
\* by the packet's product name, and draft_outputs_after_human_decision runs
\* on the packet under review; the draft is written to the outbox
PolicyForPacket(pkt) ==
    IF GetPolicyByProduct(policies, pkt.selected_policy_product_name) # None
    THEN GetPolicyByProduct(policies, pkt.selected_policy_product_name)[1]
    ELSE SelectPolicy(policies, pkt.extracted).policy[1]

DraftFile(pkt, d, body) == [filename |-> <<"email", pkt.email_id, d>>, body |-> body]

HumanDecision ==
    /\ pc = "review"
    /\ \E d \in HumanDecisions, llm \in LlmOutcomes :
       \E r \in {DraftOutputsAfterHumanDecision(packet[1], PolicyForPacket(packet[1]), d, llm, uuids)} :
          /\ packet' = Some(r.packet)
          /\ outputs' = Some([drafted_email |-> r.drafted_email, label_ref |-> r.label_ref,
                              human_decision |-> d])
          /\ calls' = r.calls
          /\ backend' = llm
          /\ outbox' = outbox \cup r.labels
          /\ uuids' = uuids + Cardinality(r.labels)
          /\ decisions' = decisions \cup {[packet_id |-> packet[1].packet_id,
                                           email_id |-> packet[1].email_id,
                                           human_decision |-> d]}
          /\ drafts' = {f \in drafts : f.filename # <<"email", packet[1].email_id, d>>}
                        \cup {DraftFile(packet[1], d, r.drafted_email)}
    /\ pc' = "actioned"
    /\ UNCHANGED <<policies, today, inbox_dir, rejected_dir, email, triage, raised, claim,
                   selection, excerpts, emails, review_queue, match_text, match,
                   require_address,
                   policies_dir, message>>

\* draft_outputs_after_human_decision called with a decision string that is
\* none of the three: the parameter is a plain str
OtherDecisions == {"approved", "ESCALATE"}

DraftOutputsOnOtherDecision ==
    /\ pc = "review"
    /\ \E d \in OtherDecisions, llm \in LlmOutcomes :
       \E r \in {DraftOutputsAfterHumanDecision(packet[1], PolicyForPacket(packet[1]), d, llm, uuids)} :
          /\ packet' = Some(r.packet)
          /\ outputs' = Some([drafted_email |-> r.drafted_email, label_ref |-> r.label_ref,
                              human_decision |-> d])
          /\ calls' = r.calls
          /\ backend' = llm
          /\ outbox' = outbox \cup r.labels
          /\ uuids' = uuids + Cardinality(r.labels)
    /\ pc' = "actioned"
    /\ UNCHANGED <<policies, today, inbox_dir, rejected_dir, email, triage, raised, claim,
                   selection, excerpts, emails, review_queue, decisions, drafts, match_text,
                   match, require_address, policies_dir, message>>

NextDecision == Decide \/ DecideAgain \/ AddTraceability \/ HumanDecision \/ DraftOutputsOnOtherDecision

SpecDecision == InitDecision /\ [][NextDecision]_vars

(***************************************************************************)
(* src/orchestrator.py, phase 1                                            *)
(***************************************************************************)

\* InboxTool.move_to_triage_rejected: [raised, inbox_dir, rejected_dir]
MoveToTriageRejected(inbox, rejected, email_id) ==
    IF ~Exists(inbox, email_id)
    THEN [raised |-> "FileNotFoundError", inbox_dir |-> inbox, rejected_dir |-> rejected]
    ELSE [raised |-> "",
          inbox_dir |-> inbox \ {FileOf(inbox, email_id)},
          rejected_dir |-> {f \in rejected : f.stem # email_id}
                           \cup {FileOf(inbox, email_id)}]

\* the order in which the tools run on a warranty claim
ClaimSteps ==
    << "triage.classify", "extraction.extract", "policy_retriever.select_policy",
       "policy_retriever.retrieve_excerpts", "decision.build_review_packet" >>

\* the steps after triage on a warranty claim, each fed by the ones before it
ClaimResult(e, triage_result, c, sel, ex, uuid, inbox, rejected) ==
    [raised |-> "", claim |-> Some(c), selection |-> Some(sel), excerpts |-> ex,
     packet |-> Some(Stamp(BuildReviewPacket(<<"pkt", e.email_id, uuid>>, e.email_id, c,
                                             sel.policy[1], sel.reason, ex, today,
                                             <<"utcnow", uuid>>),
                           triage_result)),
     calls |-> ClaimSteps, inbox_dir |-> inbox, rejected_dir |-> rejected]
Retrieved(e, triage_result, c, sel, uuid, inbox, rejected) ==
    ClaimResult(e, triage_result, c, sel, RetrieveExcerpts(sel.policy[1], c), uuid,
                inbox, rejected)
Extracted(e, triage_result, c, uuid, inbox, rejected) ==
    Retrieved(e, triage_result, c, SelectPolicy(policies, c), uuid, inbox, rejected)

NonClaimResult(moved) ==
    [raised |-> moved.raised, claim |-> None, selection |-> None, excerpts |-> <<>>,
     packet |-> None, calls |-> <<"triage.classify", "inbox.move_to_triage_rejected">>,
     inbox_dir |-> moved.inbox_dir, rejected_dir |-> moved.rejected_dir]

\* WarrantyClaimsOrchestrator.process_email_to_review_packet, given what
\* triage answered
ProcessEmailToReviewPacket(e, triage_result, uuid, inbox, rejected) ==
    IF triage_result.label = "NON_CLAIM"
    THEN NonClaimResult(MoveToTriageRejected(inbox, rejected, e.email_id))
    ELSE Extracted(e, triage_result, Extract(e, ListProducts(policies), require_address), uuid,
                   inbox, rejected)

(***************************************************************************)
(* The inboxes considered                                                  *)
(***************************************************************************)
\* file names in the order sorted() lists them
SortedStems == <<"e1", "e2", "e3", "e4", "e5">>

ClaimWithId ==
    InboxFile("e1", TRUE,
        EmailMessage(Some("e1"), <<"W","a","r","r","a","n","t","y"," ","c","l","a","i","m">>,
                     <<"M","y"," ","A","e","r","o","D","r","y"," ","P","r","o"," ","1","8","0","0"," ","s","t","o","p","p","e","d"," ","w","o","r","k","i","n","g","."," ","B","o","u","g","h","t"," ","2","0","2","6","-","1","0","-","0","2",","," ","O","r","d","e","r"," ","I","D",":"," ","A","-","1","2"," ","S","h","i","p"," ","t","o"," ","1","2"," ","E","l","m"," ","S","t",","," ","N","e","w","a","r","k",","," ","N","J">>,
                     Some(<<"A","n","a">>), << <<"I","n","v","o","i","c","e",".","P","D","F">> >>))
SpamWithId ==
    InboxFile("e2", TRUE,
        EmailMessage(Some("e2"), <<"P","a","r","t","n","e","r","s","h","i","p">>,
                     <<"A"," ","m","a","r","k","e","t","i","n","g"," ","o","p","p","o","r","t","u","n","i","t","y"," ","f","o","r"," ","y","o","u","r"," ","h","a","i","r"," ","d","r","y","e","r"," ","b","r","a","n","d">>, None, <<>>))
\* a file whose JSON names another id than its file name
OtherWithOtherId ==
    InboxFile("e3", TRUE,
        EmailMessage(Some("e9"), <<"H","e","l","l","o">>, <<"C","a","n"," ","y","o","u"," ","c","a","l","l"," ","m","e"," ","b","a","c","k","?">>, None, <<>>))
\* a file without an email_id
ClaimWithoutId ==
    InboxFile("e4", TRUE,
        EmailMessage(None, <<"T","r","a","v","e","l"," ","M","i","n","i">>,
                     <<"t","h","e"," ","n","o","z","z","l","e"," ","i","s"," ","l","o","o","s","e"," ","s","i","n","c","e"," ","l","a","s","t"," ","m","o","n","t","h">>, None, << <<"p","h","o","t","o",".","j","p","g">> >>))
\* a file that fails validation
InvalidFile ==
    InboxFile("e5", FALSE, EmailMessage(None, <<>>, <<>>, None, <<>>))

InboxFiles == {ClaimWithId, SpamWithId, OtherWithOtherId, ClaimWithoutId, InvalidFile}

\* the most files in the inbox
MaxFiles == 2
Inboxes == {dir \in SUBSET InboxFiles : Cardinality(dir) <= MaxFiles}

\* InboxTool.load_all_emails: the valid files, in sorted order
LoadableStems(dir) ==
    SelectSeq(SortedStems, LAMBDA s : \E f \in dir : f.stem = s /\ f.valid)
LoadAll(dir) ==
    [i \in DOMAIN LoadableStems(dir) |-> LoadEmail(FileOf(dir, LoadableStems(dir)[i]))]

(***************************************************************************)
(* run_demo: load the inbox, then phase 1 and the review on each email     *)
(***************************************************************************)
Init ==
    /\ pc = "start"
    /\ policies = DefaultCatalog
    /\ today = Today
    /\ inbox_dir \in Inboxes
    /\ rejected_dir = {}
    /\ email = None
    /\ triage = None
    /\ raised = ""
    /\ claim = None
    /\ selection = None
    /\ excerpts = <<>>
    /\ packet = None
    /\ outputs = None
    /\ calls = <<>>
    /\ outbox = {}
    /\ uuids = 0
    /\ emails = <<>>
    /\ review_queue = {}
    /\ decisions = {}
    /\ drafts = {}
    /\ match_text = <<>>
    /\ match = None
    /\ backend = "absent"
    \* ExtractionConfig(known_products=known_products, require_address=False)
    /\ require_address = FALSE
    /\ policies_dir = DirOf(policies)
    /\ message = None

LoadAllEmails ==
    /\ pc = "start"
    /\ emails' = LoadAll(inbox_dir)
    /\ pc' = "loop"
    /\ calls' = <<"inbox.load_all_emails">>
    /\ UNCHANGED <<policies, today, inbox_dir, rejected_dir, email, triage, raised, claim,
                   selection, excerpts, packet, outputs, outbox, uuids, review_queue,
                   decisions, drafts, match_text, match, backend, require_address,
                   policies_dir, message>>

\* one turn of the loop up to the review: phase 1 on the next email
ProcessEmail ==
    /\ pc \in {"loop", "actioned"}
    /\ emails # <<>>
    /\ \E b \in TriageBackendOutcomes :
       \E t \in {Classify(Head(emails), TriageOutput(b))} :
       \E r \in {ProcessEmailToReviewPacket(Head(emails), t, uuids, inbox_dir, rejected_dir)} :
          /\ triage' = Some(t)
          /\ backend' = b
          /\ raised' = r.raised
          /\ claim' = r.claim
          /\ selection' = r.selection
          /\ excerpts' = r.excerpts
          /\ packet' = r.packet
          /\ calls' = r.calls
          /\ inbox_dir' = r.inbox_dir
          /\ rejected_dir' = r.rejected_dir
          /\ uuids' = IF r.packet # None THEN uuids + 1 ELSE uuids
          /\ review_queue' = IF r.packet # None THEN review_queue \cup {r.packet[1]}
                             ELSE review_queue
          /\ pc' = IF r.raised # "" THEN "crashed"
                   ELSE IF r.packet # None THEN "review" ELSE "loop"
    /\ email' = Some(Head(emails))
    /\ emails' = Tail(emails)
    /\ outputs' = None
    /\ UNCHANGED <<policies, today, outbox, decisions, drafts, match_text, match,
                   require_address,
                   policies_dir, message>>

Next == LoadAllEmails \/ ProcessEmail \/ HumanDecision

Spec == Init /\ [][Next]_vars

(***************************************************************************)
(* Policy selection on every claim match_text and catalog                        *)
(***************************************************************************)
SelectNames == { None, Some(<<" ","a","e","r","o","d","r","y"," ","p","r","o"," ","2","2","0","0"," ">>), Some(<<"A","e","r","o","D","r","y"," ","P","r","o">>) }
SelectHints == { None, Some(<<" "," ">>), Some(<<"t","h","e"," ","t","r","a","v","e","l"," ","m","i","n","i">>), Some(<<"G","o"," ","2">>) }
SelectIssues ==
    { <<"i","t"," ","i","s"," ","s","o">>, <<"m","y"," ","A","e","r","o","D","r","y"," ","P","r","o"," ","1","8","0","0"," ","i","s"," ","d","e","a","d">>, <<"P","r","o"," ","u","n","i","t",":"," ","n","o"," ","h","e","a","t">>,
      <<"t","h","e"," ","P","r","o"," ","1","8","0","0"," ","p","o","w","e","r"," ","s","w","i","t","c","h"," ","c","r","a","c","k","e","d"," ","d","u","r","i","n","g"," ","a"," ","f","l","i","g","h","t">> }
MatchTexts ==
    { <<>>, <<"i","t"," ","i","s"," ","s","o">>, <<"a","e","r","o","d","r","y"," ","p","r","o">>, <<"A","E","R","O","D","R","Y","-","P","R","O"," ","2","2","0","0","!">>, <<"m","y"," ","G","o"," ","2">>,
      <<"g","o"," ","2"," ","i","s"," ","d","e","a","d">>, <<"m","i","n","i"," ","p","r","o"," ","t","r","a","v","e","l">>, <<"a"," ","p","r","o","2","2","0","0"," ","u","n","i","t">> }

InitSelect ==
    /\ pc = "ready"
    /\ policies \in Catalogs
    /\ today = Today
    /\ inbox_dir = {}
    /\ rejected_dir = {}
    /\ email = None
    /\ triage = None
    /\ raised = ""
    /\ \E pn \in SelectNames, hint \in SelectHints, issue \in SelectIssues :
          claim = Some(ClaimExtract(None, pn, hint, None, issue, FALSE, None))
    /\ selection = None
    /\ excerpts = <<>>
    /\ packet = None
    /\ outputs = None
    /\ calls = <<>>
    /\ outbox = {}
    /\ uuids = 0
    /\ emails = <<>>
    /\ review_queue = {}
    /\ decisions = {}
    /\ drafts = {}
    /\ match_text \in MatchTexts
    /\ match = None
    /\ backend = "absent"
    /\ require_address = FALSE
    /\ policies_dir = DirOf(policies)
    /\ message = None

\* select_policy on the claim
SelectPolicyCall ==
    /\ pc = "ready"
    /\ selection' = Some(SelectPolicy(policies, claim[1]))
    /\ calls' = <<"policy_retriever.select_policy">>
    /\ pc' = "selected"
    /\ UNCHANGED <<policies, today, inbox_dir, rejected_dir, email, triage, raised, claim,
                   excerpts, packet, outputs, outbox, uuids, emails, review_queue,
                   decisions, drafts, match_text, match, backend, require_address,
                   policies_dir, message>>

\* _best_match_from_text on the match_text
BestMatchCall ==
    /\ pc = "ready"
    /\ match' = BestMatchFromText(policies, match_text)
    /\ calls' = <<"policy_retriever._best_match_from_text">>
    /\ pc' = "matched"
    /\ UNCHANGED <<policies, today, inbox_dir, rejected_dir, email, triage, raised, claim,
                   selection, excerpts, packet, outputs, outbox, uuids, emails,
                   review_queue, decisions, drafts, match_text, backend, require_address,
                   policies_dir, message>>

\* retrieve_excerpts on the selected policy and the claim
RetrieveExcerptsCall ==
    /\ pc = "selected"
    /\ selection[1].raised = ""
    /\ excerpts' = RetrieveExcerpts(selection[1].policy[1], claim[1])
    /\ calls' = <<"policy_retriever.retrieve_excerpts">>
    /\ pc' = "retrieved"
    /\ UNCHANGED <<policies, today, inbox_dir, rejected_dir, email, triage, raised, claim,
                   selection, packet, outputs, outbox, uuids, emails, review_queue,
                   decisions, drafts, match_text, match, backend, require_address,
                   policies_dir, message>>

NextSelect == SelectPolicyCall \/ BestMatchCall \/ RetrieveExcerptsCall

SpecSelect == InitSelect /\ [][NextSelect]_vars

(***************************************************************************)
(* Triage and extraction on every email considered                         *)
(***************************************************************************)
\* a text of n characters without whitespace, digits or signal words
LongText(n) == [i \in 1..n |-> LowerLetters[((i - 1) % 26) + 1]]

IntakeSubjects == { <<"W","a","r","r","a","n","t","y"," ","c","l","a","i","m">>, <<"H","e","l","l","o">>, <<"P","a","r","t","n","e","r","s","h","i","p"," ","o","f","f","e","r">> }
IntakeBodies ==
    { <<>>,
      <<" ", "\n", " ">>,
      <<"M","y"," ","A","e","r","o","D","r","y"," ","P","r","o"," ","1","8","0","0"," ","s","t","o","p","p","e","d"," ","w","o","r","k","i","n","g","."," ","B","o","u","g","h","t"," ","2","0","2","6","-","1","0","-","0","2","."," ","O","r","d","e","r"," ","I","D",":"," ","A","1","-","7","7">>,
      <<"I"," ","b","o","u","g","h","t"," ","a","n"," ","A","e","r","o","D","r","y"," ","T","r","a","v","e","l"," ","M","i","n","i"," ","o","n"," ","2","0","2","6","-","1","0","-","3","0">>,
      <<" ">> \o <<"t","h","e"," ","n","o","z","z","l","e"," ","i","s"," ","l","o","o","s","e">> \o <<" ", "\n">>,
      <<"C","a","n"," ","y","o","u"," ","c","a","l","l"," ","m","e"," ","b","a","c","k","?">>,
      <<"A"," ","m","a","r","k","e","t","i","n","g"," ","p","r","o","m","o","t","i","o","n"," ","f","o","r"," ","y","o","u","r"," ","h","a","i","r"," ","d","r","y","e","r"," ","b","r","a","n","d">>,
      <<"i","t"," ","o","v","e","r","l","o","a","d","s"," ","t","h","e"," ","f","u","s","e">>,
      LongText(IssueLimit),
      LongText(IssueLimit + 1),
      <<" ">> \o LongText(IssueLimit) \o <<"\n">>,
      <<"\t">> \o LongText(IssueLimit + 2) }
IntakeNames == { None, Some(<<"A","n","a">>) }
IntakeAttachments ==
    { <<>>,
      << <<"i","n","v","o","i","c","e",".","p","d","f">> >>,
      << <<"i","n","v","o","i","c","e",".","t","x","t">> >>,
      << <<"p","h","o","t","o",".","j","p","g">> >>,
      << <<"p","h","o","t","o",".","j","p","g">>, <<"O","r","d","e","r","_","R","e","c","e","i","p","t",".","P","N","G">> >> }

InitIntake ==
    /\ pc = "received"
    /\ policies = DefaultCatalog
    /\ today = Today
    /\ inbox_dir = {}
    /\ rejected_dir = {}
    /\ \E subject \in IntakeSubjects, body \in IntakeBodies, name \in IntakeNames,
          attachments \in IntakeAttachments :
          email = Some(EmailMessage("e1", subject, body, name, attachments))
    /\ triage = None
    /\ raised = ""
    /\ claim = None
    /\ selection = None
    /\ excerpts = <<>>
    /\ packet = None
    /\ outputs = None
    /\ calls = <<>>
    /\ outbox = {}
    /\ uuids = 0
    /\ emails = <<>>
    /\ review_queue = {}
    /\ decisions = {}
    /\ drafts = {}
    /\ match_text = <<>>
    /\ match = None
    /\ backend = "absent"
    /\ require_address \in BOOLEAN
    /\ policies_dir = DirOf(policies)
    /\ message = None

\* TriageTool.classify on the email, whatever the backend does
ClassifyCall ==
    /\ pc = "received"
    /\ \E b \in TriageBackendOutcomes :
          /\ triage' = Some(Classify(email[1], TriageOutput(b)))
          /\ backend' = b
    /\ raised' = ""
    /\ calls' = <<"triage.classify">>
    /\ pc' = "triaged"
    /\ UNCHANGED <<policies, today, inbox_dir, rejected_dir, email, claim, selection,
                   excerpts, packet, outputs, outbox, uuids, emails, review_queue,
                   decisions, drafts, match_text, match, require_address,
                   policies_dir, message>>

\* ExtractionTool.extract on the email, whatever the backend does
ExtractCall ==
    /\ pc = "received"
    /\ \E c \in {Extract(email[1], ListProducts(policies), require_address)} :
       \E b \in ExtractBackendOutcomes :
          /\ claim' = Some(c)
          /\ backend' = b
    /\ raised' = ""
    /\ calls' = <<"extraction.extract">>
    /\ pc' = "extracted"
    /\ UNCHANGED <<policies, today, inbox_dir, rejected_dir, email, triage, selection,
                   excerpts, packet, outputs, outbox, uuids, emails, review_queue,
                   decisions, drafts, match_text, match, require_address,
                   policies_dir, message>>

NextIntake == ClassifyCall \/ ExtractCall

SpecIntake == InitIntake /\ [][NextIntake]_vars


(***************************************************************************)
(* PolicyRetriever(config) on a directory of policy files                  *)
(***************************************************************************)
ObjPro1800 ==
    JObject(Some(JStr(PolicyPro1800.policy_id)), Some(JStr(PolicyPro1800.product_name)),
            Some(JInt(3)), Some(JList(PolicyPro1800.covered_issues)),
            Some(JList(PolicyPro1800.exclusions)), Some(JList(PolicyPro1800.required_proof)))
\* no policy_id and no lists in the file
ObjGo2 == JObject(None, Some(JStr(PolicyGo2.product_name)), Some(JInt(6)), None, None, None)
\* no warranty period in the file
ObjTravelMini ==
    JObject(Some(JStr(PolicyTravelMini.policy_id)), Some(JStr(PolicyTravelMini.product_name)),
            None, Some(JList(PolicyTravelMini.covered_issues)), None, None)
ObjNoProduct == JObject(Some(JStr(<<"p","o","l","i","c","y","_","x">>)), None, Some(JInt(3)), None, None, None)
ObjNumberAsName == JObject(None, Some(JInt(1800)), None, None, None, None)
ObjMonthsAsList == JObject(None, Some(JStr(<<"A","e","r","o","D","r","y"," ","L","i","t","e">>)), Some(JList(<<>>)), None, None, None)

\* the files a policies directory may hold
PolicyFiles ==
    { PolicyFile(<<"p","o","l","i","c","y","_","a","e","r","o","d","r","y","_","p","r","o","_","1","8","0","0",".","j","s","o","n">>, "object", Some(ObjPro1800)),
      PolicyFile(<<"p","o","l","i","c","y","_","g","o","_","2",".","j","s","o","n">>, "object", Some(ObjGo2)),
      PolicyFile(<<"T","r","a","v","e","l","_","M","i","n","i",".","j","s","o","n">>, "object", Some(ObjTravelMini)),
      PolicyFile(<<"p","o","l","i","c","y","_","a","e","r","o","d","r","y",".","j","s","o","n">>, "object", Some(ObjNoProduct)),
      PolicyFile(<<"p","o","l","i","c","y","_","1","8","0","0",".","j","s","o","n">>, "object", Some(ObjNumberAsName)),
      PolicyFile(<<"l","i","t","e",".","j","s","o","n">>, "object", Some(ObjMonthsAsList)),
      PolicyFile(<<"d","r","a","f","t",".","j","s","o","n">>, "malformed", None),
      PolicyFile(<<"a","l","l","_","p","o","l","i","c","i","e","s",".","j","s","o","n">>, "array", None),
      PolicyFile(<<"p","o","l","i","c","y","_","p","r","o","_","2","2","0","0",".","j","s","o","n",".","b","a","k">>, "object", Some(ObjNoProduct)),
      PolicyFile(<<"R","E","A","D","M","E",".","t","x","t">>, "malformed", None) }

\* the most files in the directory
MaxPolicyFiles == 3
PolicyDirs == {dir \in SUBSET PolicyFiles : Cardinality(dir) <= MaxPolicyFiles}

InitLoad ==
    /\ pc = "start"
    /\ policies = <<>>
    /\ policies_dir \in PolicyDirs
    /\ message = None
    /\ today = Today
    /\ inbox_dir = {}
    /\ rejected_dir = {}
    /\ email = None
    /\ triage = None
    /\ raised = ""
    /\ claim = None
    /\ selection = None
    /\ excerpts = <<>>
    /\ packet = None
    /\ outputs = None
    /\ calls = <<>>
    /\ outbox = {}
    /\ uuids = 0
    /\ emails = <<>>
    /\ review_queue = {}
    /\ decisions = {}
    /\ drafts = {}
    /\ match_text = <<>>
    /\ match = None
    /\ backend = "absent"
    /\ require_address = FALSE

\* PolicyRetriever(PolicyRetrieverConfig(policies_dir=policies_dir)):
\* when _load_policies raises, the constructor raises and no retriever exists
Construct ==
    /\ pc = "start"
    /\ \E r \in {LoadPolicies(policies_dir)} :
          /\ raised' = r.raised
          /\ message' = r.message
          /\ policies' = r.policies
          /\ pc' = IF r.raised = "" THEN "constructed" ELSE "crashed"
    /\ calls' = <<"policy_retriever._load_policies">>
    /\ UNCHANGED <<today, inbox_dir, rejected_dir, email, triage, claim, selection, excerpts,
                   packet, outputs, outbox, uuids, emails, review_queue, decisions, drafts,
                   match_text, match, backend, require_address, policies_dir>>

NextLoad == Construct

SpecLoad == InitLoad /\ [][NextLoad]_vars
(***************************************************************************)
(* Properties of the decision engine (SpecDecision)                        *)
(***************************************************************************)
\* the packet build_review_packet returns for the claim under another address
PacketWithAddress(a) ==
    BuildReviewPacket(<<"pkt", "e1", 0>>, "e1", [claim[1] EXCEPT !.shipping_address = a],
                      selection[1].policy[1], selection[1].reason, excerpts, today,
                      <<"utcnow", 0>>)

\* does the lowercased issue text of the claim match one of the three exclusion rules?
AnyExclusionRule ==
    \/ VoltageHit(Lower(claim[1].issue_description))
    \/ TravelDamageHit(Lower(claim[1].issue_description))
    \/ FitmentHit(Lower(claim[1].issue_description))

SaysLastMonth == Contains(Lower(claim[1].issue_description), KwLastMonth)
HasDate == claim[1].purchase_date # None
ElapsedDays == DaysBetween(today, claim[1].purchase_date[1])
LimitDays == selection[1].policy[1].warranty_period_months * 30

\* C1: the shipping address never influences the verdict: the packets built for
\* the same inputs under any two addresses (present, empty or absent) carry the
\* same recommendation and the same confidence, and a claim with no exclusion
\* match and an in-window (or "last month") purchase is recommended APPROVE
\* whether or not the address is present.
C1_AddressNeverInfluencesVerdict ==
    pc = "review" =>
        /\ \A a \in Addresses :
              /\ PacketWithAddress(a).recommendation = packet[1].recommendation
              /\ PacketWithAddress(a).confidence = packet[1].confidence
        /\ (~AnyExclusionRule /\ ((HasDate /\ ElapsedDays <= LimitDays)
                                   \/ (~HasDate /\ SaysLastMonth)))
              => packet[1].recommendation = "APPROVE"
C1_Witness ==
    /\ pc = "review"
    /\ claim[1].shipping_address = None
    /\ ~AnyExclusionRule
    /\ HasDate /\ ElapsedDays <= LimitDays
    /\ packet[1].recommendation = "APPROVE"
    /\ PacketWithAddress(Some(<<"1">>)).recommendation = "APPROVE"

\* C2: a claim whose issue text matches any of the three exclusion rules is
\* recommended REJECT with confidence high, whatever the purchase date and the
\* proof-of-purchase flag.
C2_ExclusionPrecedence ==
    (pc = "review" /\ AnyExclusionRule) =>
        /\ packet[1].recommendation = "REJECT"
        /\ packet[1].confidence = "high"
C2_Witness ==
    /\ pc = "review"
    /\ FitmentHit(Lower(claim[1].issue_description))
    /\ ~VoltageHit(Lower(claim[1].issue_description))
    /\ HasDate /\ ElapsedDays <= LimitDays
    /\ claim[1].proof_of_purchase_present
    /\ packet[1].recommendation = "REJECT"

\* C3: with no exclusion match the verdict follows the table: a date within
\* months * 30 days (inclusive) gives APPROVE, high with proof and medium
\* without; a date beyond it gives REJECT high; no date and "last month" in the
\* text gives APPROVE medium; no date otherwise gives NEED_MORE_INFO low.
C3_RecommendationTable ==
    (pc = "review" /\ ~AnyExclusionRule) =>
        <<packet[1].recommendation, packet[1].confidence>> =
            (IF HasDate /\ ElapsedDays <= LimitDays
             THEN <<"APPROVE", IF claim[1].proof_of_purchase_present THEN "high" ELSE "medium">>
             ELSE IF HasDate THEN <<"REJECT", "high">>
             ELSE IF SaysLastMonth THEN <<"APPROVE", "medium">>
             ELSE <<"NEED_MORE_INFO", "low">>)
C3_Witness ==
    /\ pc = "review"
    /\ ~AnyExclusionRule
    /\ HasDate /\ ElapsedDays = LimitDays
    /\ packet[1].recommendation = "APPROVE"

(***************************************************************************)
(* Properties of the post-decision step                                    *)
(***************************************************************************)
Approved == pc = "actioned" /\ outputs[1].human_decision = "APPROVED"
AddressAbsent == ~Truthy(claim[1].shipping_address)
LabelCalls == {i \in DOMAIN calls : calls[i] = "label_generator.generate"}

\* C4: after APPROVED on a packet without a shipping address the packet's
\* recommendation is NEED_MORE_INFO, its follow-up questions are exactly the
\* address request, the label generator was not called, no label exists and
\* the returned label_ref is None.
C4_ApprovedWithoutAddress ==
    (Approved /\ AddressAbsent) =>
        /\ packet[1].recommendation = "NEED_MORE_INFO"
        /\ packet[1].recommendation # "REJECT"
        /\ packet[1].customer_followup_questions = <<QAddress>>
        /\ LabelCalls = {}
        /\ outbox = {}
        /\ outputs[1].label_ref = None
C4_Witness ==
    /\ Approved /\ AddressAbsent
    /\ ~claim[1].proof_of_purchase_present /\ ~HasDate /\ SaysLastMonth
    /\ PacketWithAddress(None).recommendation = "APPROVE"
    /\ Len(PacketWithAddress(None).customer_followup_questions) >= 2
    /\ packet[1].customer_followup_questions = <<QAddress>>

\* C5: APPROVED with an address sets APPROVE, writes exactly one label and
\* returns its name with an approval email carrying that name; REJECTED sets
\* REJECT and MORE_INFO_REQUESTED sets NEED_MORE_INFO, both without a label;
\* so a label exists iff the decision is APPROVED and the address is present,
\* and every call returns a drafted email for the recommendation it set.
C5_DispatchPerDecision ==
    pc = "actioned" =>
        /\ (Approved /\ ~AddressAbsent) =>
              /\ packet[1].recommendation = "APPROVE"
              /\ Cardinality(outbox) = 1 /\ Cardinality(LabelCalls) = 1
              /\ \E l \in outbox : outputs[1].label_ref = Some(l.filename)
              /\ outputs[1].drafted_email.kind \in {"approve", "llm"}
              /\ outputs[1].drafted_email.label_ref = outputs[1].label_ref
        /\ outputs[1].human_decision = "REJECTED" =>
              /\ packet[1].recommendation = "REJECT"
              /\ outputs[1].label_ref = None
        /\ outputs[1].human_decision = "MORE_INFO_REQUESTED" =>
              /\ packet[1].recommendation = "NEED_MORE_INFO"
              /\ outputs[1].label_ref = None
        /\ (outbox # {}) <=> (Approved /\ ~AddressAbsent)
        /\ (LabelCalls # {}) <=> (Approved /\ ~AddressAbsent)
        /\ calls[Len(calls)] = "email_writer.draft"
        /\ outputs[1].drafted_email.decision = packet[1].recommendation
        /\ outputs[1].drafted_email.kind \in {"llm", TemplateFor(packet[1].recommendation)}
C5_Witness ==
    /\ Approved /\ ~AddressAbsent
    /\ outputs[1].label_ref # None
    /\ outputs[1].drafted_email.kind = "approve"
    /\ outputs[1].drafted_email.label_ref = outputs[1].label_ref
    /\ PacketWithAddress(claim[1].shipping_address).recommendation = "APPROVE"

(***************************************************************************)
(* Properties of phase 1 (Spec)                                            *)
(***************************************************************************)
TriagedAs(label) == triage # None /\ triage[1].label = label

\* C6: phase 1 on an email that triage labels NON_CLAIM returns None without
\* raising, leaves the email's file in triage_rejected, and calls neither
\* extraction, policy selection, excerpt retrieval nor the decision tool, so
\* no packet is built.
C6_NonClaimIsTerminal ==
    TriagedAs("NON_CLAIM") =>
        /\ raised = ""
        /\ packet = None
        /\ Exists(rejected_dir, email[1].email_id)
        /\ ~Exists(inbox_dir, email[1].email_id)
        /\ calls = <<"triage.classify", "inbox.move_to_triage_rejected">>
        /\ claim = None /\ selection = None

\* the part of C6 that does not depend on the move: no tool after triage runs
\* and no packet is built, whether or not the move raises
C6_NoPacketOnNonClaim ==
    TriagedAs("NON_CLAIM") =>
        /\ packet = None
        /\ calls = <<"triage.classify", "inbox.move_to_triage_rejected">>
        /\ claim = None /\ selection = None
        /\ raised \in {"", "FileNotFoundError"}
        /\ raised = "" <=> Exists(rejected_dir, email[1].email_id)

\* C7: phase 1 on an email that triage labels WARRANTY_CLAIM returns one
\* packet without raising, built by extraction, policy selection, excerpt
\* retrieval and the decision tool in that order, each fed by the results
\* before it; the packet's recommendation is APPROVE, REJECT or
\* NEED_MORE_INFO, its triage_label is WARRANTY_CLAIM and its last routing
\* note cites the triage reason.
C7_ClaimYieldsOnePacket ==
    TriagedAs("WARRANTY_CLAIM") =>
        /\ raised = ""
        /\ pc \in {"review", "actioned"}
        /\ packet # None
        /\ packet[1].recommendation \in {"APPROVE", "REJECT", "NEED_MORE_INFO"}
        /\ pc = "review" =>
              /\ calls = << "triage.classify", "extraction.extract",
                            "policy_retriever.select_policy",
                            "policy_retriever.retrieve_excerpts",
                            "decision.build_review_packet" >>
              /\ claim = Some(Extract(email[1], ListProducts(policies), FALSE))
              /\ selection = Some(SelectPolicy(policies, claim[1]))
              /\ excerpts = RetrieveExcerpts(selection[1].policy[1], claim[1])
              /\ packet[1].extracted = claim[1]
              /\ packet[1].email_id = email[1].email_id
              /\ packet[1].selected_policy_id = selection[1].policy[1].policy_id
              /\ packet[1].policy_selection_reason = selection[1].reason
              /\ packet[1].referenced_policy_excerpts = excerpts
              /\ packet[1].triage_label = "WARRANTY_CLAIM"
              /\ packet[1].routing_notes # <<>>
              /\ packet[1].routing_notes[Len(packet[1].routing_notes)]
                    = Ln("Triage reason: {reason}", <<triage[1].reason>>)
              /\ Cardinality({p \in review_queue : p.packet_id = packet[1].packet_id}) = 1
C7_Witness ==
    /\ TriagedAs("WARRANTY_CLAIM")
    /\ pc = "review"
    /\ triage[1].reason = ReasonClaimSignals
    /\ packet[1].recommendation = "REJECT"
    /\ Len(packet[1].routing_notes) = 1
    /\ Cardinality(review_queue) = 2

(***************************************************************************)
(* Properties of policy selection (SpecSelect)                             *)
(***************************************************************************)
InCatalog(p) == \E i \in DOMAIN policies : policies[i] = p
Combined ==
    Strip(JoinSpace(<<OrEmpty(claim[1].product_name), OrEmpty(claim[1].product_model_hint),
                      claim[1].issue_description>>))
StrippedHint == Strip(OrEmpty(claim[1].product_model_hint))
\* the catalog positions whose name equals the claim's product name, case and
\* surrounding blanks apart
ExactPositions ==
    IF Truthy(claim[1].product_name)
    THEN {i \in DOMAIN policies :
            Lower(Strip(policies[i].product_name)) = Lower(Strip(claim[1].product_name[1]))}
    ELSE {}
Min(S) == CHOOSE x \in S : \A y \in S : x <= y
HintMatch == IF StrippedHint # <<>> THEN BestMatchFromText(policies, StrippedHint) ELSE None
CombinedMatch == BestMatchFromText(policies, Combined)

\* C8: on a non-empty catalog select_policy raises nothing and returns a
\* policy of the catalog with a non-empty reason; when the exact name, the
\* hint and the combined match_text all fail it returns the first policy.
C8_SelectPolicyTotal ==
    pc = "selected" =>
        /\ selection[1].raised = ""
        /\ selection[1].policy # None
        /\ InCatalog(selection[1].policy[1])
        /\ selection[1].reason # <<>>
        /\ (ExactPositions = {} /\ HintMatch = None /\ CombinedMatch = None)
              => /\ selection[1].policy[1] = policies[1]
                 /\ selection[1].reason = ReasonFallback
C8_Witness ==
    /\ pc = "selected"
    /\ claim[1].product_name = None
    /\ ~Truthy(claim[1].product_model_hint)
    /\ Tokenize(claim[1].issue_description) = {}
    /\ Len(policies) > 1
    /\ selection[1].policy[1] = policies[1]
    /\ selection[1].reason = ReasonFallback

\* C9: the four rules apply in fixed priority: an exact (case-insensitive)
\* product-name match wins even when the hint matches another policy; else
\* the token-overlap match on the hint; else the token-overlap match on
\* name + hint + issue; else the first policy; and the reason names the rule.
C9_RulePriority ==
    pc = "selected" =>
        IF ExactPositions # {}
        THEN /\ selection[1].policy[1] = policies[Min(ExactPositions)]
             /\ selection[1].reason
                   = ReasonExactPrefix \o claim[1].product_name[1] \o ReasonSuffix
        ELSE IF HintMatch # None
        THEN /\ selection[1].policy = HintMatch
             /\ selection[1].reason = ReasonHintPrefix \o StrippedHint \o ReasonSuffix
        ELSE IF CombinedMatch # None
        THEN /\ selection[1].policy = CombinedMatch
             /\ selection[1].reason = ReasonOverlap
        ELSE /\ selection[1].policy[1] = policies[1]
             /\ selection[1].reason = ReasonFallback
C9_Witness ==
    /\ pc = "selected"
    /\ ExactPositions # {}
    /\ HintMatch # None
    /\ HintMatch[1] # policies[Min(ExactPositions)]
    /\ selection[1].policy[1] = policies[Min(ExactPositions)]
    /\ StartsWith(selection[1].reason, ReasonExactPrefix)

\* the score the claim gives candidate i for the match_text
ClaimedScore(i) ==
    Cardinality(Tokenize(match_text) \cap Tokenize(policies[i].product_name))
    + (IF Contains(Lower(match_text), Lower(policies[i].product_name)) THEN 3 ELSE 0)
MaxClaimedScore ==
    CHOOSE s \in {ClaimedScore(i) : i \in DOMAIN policies} :
        \A i \in DOMAIN policies : ClaimedScore(i) <= s

\* C10: _best_match_from_text scores a candidate by the tokens it shares with
\* the match_text, plus 3 when its full name occurs in the match_text (case-insensitive);
\* it returns the earliest candidate of maximum score, and no match exactly
\* when the maximum score is 0.
C10_BestMatchByScore ==
    pc = "matched" =>
        IF MaxClaimedScore = 0 THEN match = None
        ELSE match = Some(policies[Min({i \in DOMAIN policies :
                                           ClaimedScore(i) = MaxClaimedScore})])

\* the same with the early return: no match also when the match_text has no token
\* of three characters or more
C10_BestMatchByScoreGivenTokens ==
    pc = "matched" =>
        IF MaxClaimedScore = 0 \/ Tokenize(match_text) = {} THEN match = None
        ELSE match = Some(policies[Min({i \in DOMAIN policies :
                                           ClaimedScore(i) = MaxClaimedScore})])

(***************************************************************************)
(* Excerpt retrieval                                                       *)
(***************************************************************************)
RetrievedFor == selection[1].policy[1]
IssueTokens == Tokenize(Lower(claim[1].issue_description))
\* the token overlap of a clause with the issue text of the claim
Overlap(clause) == Cardinality(IssueTokens \cap Tokenize(clause))
\* the positions of the excerpts of one section
SectionAt(section) == {i \in DOMAIN excerpts : excerpts[i].section = section}
SectionOrder == <<SecWarranty, SecCovered, SecExclusions, SecProof>>
SectionRank(section) == CHOOSE k \in DOMAIN SectionOrder : SectionOrder[k] = section
\* the excerpt texts of one section, in the order returned
SectionTexts(section) ==
    [k \in 1..Cardinality(SectionAt(section)) |->
       excerpts[CHOOSE i \in SectionAt(section) :
                   Cardinality({j \in SectionAt(section) : j <= i}) = k].excerpt]

TopByOverlap(texts, clauses, n) ==
    /\ Len(texts) = (IF Len(clauses) < n THEN Len(clauses) ELSE n)
    /\ \A k \in DOMAIN texts : texts[k] \in RangeOf(clauses)
    /\ \A k \in 1..(Len(texts) - 1) : Overlap(texts[k]) >= Overlap(texts[k + 1])
    /\ \A c \in RangeOf(clauses) :
          c \notin RangeOf(texts) => \A k \in DOMAIN texts : Overlap(texts[k]) >= Overlap(c)
NoExclusionOverlap == \A c \in RangeOf(RetrievedFor.exclusions) : Overlap(c) = 0

\* C12: after retrieve_excerpts, when every exclusion clause of the policy has
\* overlap 0 with the issue text the "Exclusions" excerpts are exactly the
\* first 2 exclusion clauses in catalog order; when some clause has non-zero
\* overlap they are the top 3 by overlap
C12_ExclusionFallback ==
    pc = "retrieved" =>
       IF NoExclusionOverlap
       THEN SectionTexts(SecExclusions) = Take(RetrievedFor.exclusions, 2)
       ELSE TopByOverlap(SectionTexts(SecExclusions), RetrievedFor.exclusions, 3)

\* C12, as the code behaves: the "Exclusions" excerpts are the top 3 clauses by
\* overlap whatever the overlaps are, ties in catalog order, so with no
\* overlap at all they are the first 3 clauses
C12_ExclusionsTopThree ==
    pc = "retrieved" =>
       /\ TopByOverlap(SectionTexts(SecExclusions), RetrievedFor.exclusions, 3)
       /\ NoExclusionOverlap => SectionTexts(SecExclusions) = Take(RetrievedFor.exclusions, 3)

(***************************************************************************)
(* Triage                                                                  *)
(***************************************************************************)
TriageText == Lower(email[1].subject \o <<" ">> \o email[1].body)
HasSpamTerm == \E s \in SpamSignals : Contains(TriageText, s)
HasClaimTerm == \E k \in ClaimSignals : Contains(TriageText, k)
HeuristicRan == pc = "triaged" /\ backend \in BackendFailures

\* C13: when classify ends on the heuristic, a spam term anywhere in the
\* lowercased "subject body" gives NON_CLAIM even beside claim terms; else a
\* claim term gives WARRANTY_CLAIM; else NON_CLAIM; the label is one of the
\* two values and the reason is not empty
C13_TriageOrder ==
    HeuristicRan =>
       /\ triage[1].label \in {"WARRANTY_CLAIM", "NON_CLAIM"}
       /\ triage[1].reason # <<>>
       /\ HasSpamTerm => triage[1].label = "NON_CLAIM"
       /\ (~HasSpamTerm /\ HasClaimTerm) => triage[1].label = "WARRANTY_CLAIM"
       /\ (~HasSpamTerm /\ ~HasClaimTerm) => triage[1].label = "NON_CLAIM"

\* an email with both a spam term and a claim term, triaged by the heuristic
C13_Witness == HeuristicRan /\ HasSpamTerm /\ HasClaimTerm /\ triage[1].label = "NON_CLAIM"

\* C14: whenever the backend is absent, raises, times out or answers
\* something malformed or invalid, classify and extract raise nothing and
\* return what the heuristic path gives for the email
C14_BackendFailureNeverSurfaces ==
    /\ HeuristicRan => raised = "" /\ triage = Some(Heuristic(email[1]))
    /\ (pc = "extracted" /\ backend \in BackendFailures) =>
          /\ raised = ""
          /\ claim = Some(ToClaimExtract(email[1],
                                         HeuristicExtract(email[1], ListProducts(policies)),
                                         ListProducts(policies), require_address))

\* a malformed answer on an email the heuristic routes to claims
C14_Witness ==
    /\ pc = "triaged"
    /\ backend = "malformed"
    /\ triage[1].label = "WARRANTY_CLAIM"
    /\ triage[1].reason = ReasonClaimSignals

(***************************************************************************)
(* Extraction                                                              *)
(***************************************************************************)
Extracts == pc = "extracted"
MissingSet == RangeOf(claim[1].missing_fields)
\* the names of those of the four fields that are absent from the extract
AbsentOfFour ==
    {f \in {"product_name", "purchase_date", "issue_description", "proof_of_purchase"} :
       \/ f = "product_name" /\ ~Truthy(claim[1].product_name)
       \/ f = "purchase_date" /\ claim[1].purchase_date = None
       \/ f = "issue_description" /\ claim[1].issue_description = <<>>
       \/ f = "proof_of_purchase" /\ ~claim[1].proof_of_purchase_present}

\* C15: the missing_fields of every extract name exactly those of
\* product_name, purchase_date, issue_description and proof_of_purchase that
\* are absent, and nothing else
C15_MissingFieldsOfFour == Extracts => MissingSet = AbsentOfFour

\* C15, as the code behaves: beside the four, "customer_name" is listed when
\* neither the data nor the email names the customer, and "shipping_address"
\* when the configuration requires an address and none was extracted
C15_MissingFieldsOfSix ==
    Extracts =>
       /\ MissingSet \cap {"product_name", "purchase_date", "issue_description",
                           "proof_of_purchase"} = AbsentOfFour
       /\ "customer_name" \in MissingSet <=> ~Truthy(claim[1].customer_name)
       /\ "shipping_address" \in MissingSet
             <=> (require_address /\ ~Truthy(claim[1].shipping_address))
       /\ MissingSet \subseteq {"customer_name", "product_name", "purchase_date",
                                "issue_description", "proof_of_purchase", "shipping_address"}
       /\ Cardinality(MissingSet) = Len(claim[1].missing_fields)

\* C16: the extraction_confidence of every extract is high iff missing_fields
\* is empty, low iff it has 3 or more entries, and medium otherwise
C16_ConfidenceByMissingCount ==
    Extracts =>
       /\ claim[1].extraction_confidence \in {"high", "medium", "low"}
       /\ claim[1].extraction_confidence = "high" <=> Len(claim[1].missing_fields) = 0
       /\ claim[1].extraction_confidence = "low" <=> Len(claim[1].missing_fields) >= 3
       /\ claim[1].extraction_confidence = "medium"
             <=> Len(claim[1].missing_fields) \in {1, 2}

\* an extract with exactly 3 missing fields
C16_Witness ==
    Extracts /\ Len(claim[1].missing_fields) = 3 /\ claim[1].extraction_confidence = "low"

\* some attachment names a proof of purchase, with or without an image or
\* PDF extension
WordAttachment == \E i \in DOMAIN email[1].attachments : NamesProof(email[1].attachments[i])
WordAndExtensionAttachment ==
    \E i \in DOMAIN email[1].attachments :
       NamesProof(email[1].attachments[i]) /\ HasProofExtension(email[1].attachments[i])

\* C17: in every extract of the heuristic path proof_of_purchase_present is
\* true iff some attachment file name contains invoice, receipt or order
\* (case-insensitive) and ends in .pdf, .png, .jpg or .jpeg
C17_ProofNeedsExtension ==
    Extracts => (claim[1].proof_of_purchase_present <=> WordAndExtensionAttachment)

\* C17, as the code behaves: the word alone sets the flag
C17_ProofByWordAlone ==
    Extracts => (claim[1].proof_of_purchase_present <=> WordAttachment)

\* C18: every extract has a non-empty issue_description
C18_IssueNeverEmpty == Extracts => claim[1].issue_description # <<>>

\* C18, as the code behaves: the issue_description is empty exactly when the
\* body is empty or whitespace only
C18_IssueEmptyIffBodyBlank ==
    Extracts => (claim[1].issue_description = <<>> <=> Strip(email[1].body) = <<>>)

\* the issue description is the given text when that has at most 400
\* characters, else its first 400 characters and then "..."
CutAt400(issue, given) ==
    IF Len(given) <= 400 THEN issue = given
    ELSE /\ Len(issue) = 403
         /\ SubSeq(issue, 1, 400) = SubSeq(given, 1, 400)
         /\ SubSeq(issue, 401, 403) = <<".", ".", ".">>

\* C19 as stated: in every extract of the heuristic path the issue
\* description is the email body, cut at 400 characters with "..." appended
\* when the body is longer
C19_BodyCutAt400 == Extracts => CutAt400(claim[1].issue_description, email[1].body)

\* C19, amended: in every extract of the heuristic path the issue
\* description is the body stripped of leading and trailing whitespace, cut
\* at 400 characters with "..." appended when the stripped body is longer
C19_StrippedBodyCutAt400 ==
    Extracts => CutAt400(claim[1].issue_description, Strip(email[1].body))

\* a padded body whose stripped text is longer than 400 characters
C19_Witness ==
    /\ Extracts
    /\ email[1].body # Strip(email[1].body)
    /\ Len(Strip(email[1].body)) > 400
    /\ Len(claim[1].issue_description) = 403

(***************************************************************************)
(* Determinism of the decision engine                                      *)
(***************************************************************************)
\* the fields of a packet that the verdict consists of
Verdict(pkt) ==
    <<pkt.recommendation, pkt.confidence, pkt.facts, pkt.assumptions, pkt.reasoning,
      pkt.uncertainty_notes, pkt.customer_followup_questions>>
BuildsPacket == calls' = <<"decision.build_review_packet">>

JsonFiles == GlobJson(policies_dir)
\* a file the loop cannot turn into a record
Unreadable(f) == f.kind # "object"
Invalid(f) == f.kind = "object" /\ ~Validates(SetDefaultId(f.obj[1], f))
BadFiles == {f \in JsonFiles : Unreadable(f) \/ Invalid(f)}
FirstBad == CHOOSE f \in BadFiles : \A g \in BadFiles \ {f} : TextLess(f.name, g.name)
Constructed == pc \in {"constructed", "crashed"}
NamesFile(m, f) == \E i \in DOMAIN m.args : m.args[i] = f.name
Record(f) == ModelValidate(SetDefaultId(f.obj[1], f))

\* C21: constructing the catalog raises when the directory holds no policy
\* file or when some file fails validation, and then there is no catalog; a
\* validation error names the file that failed; a catalog that was built is
\* non-empty and holds the record of every file, in the sorted order of the
\* file names
C21_LoadAllOrNothing ==
    Constructed =>
      /\ (JsonFiles = {} \/ BadFiles # {}) <=> raised # ""
      /\ raised # "" => pc = "crashed" /\ policies = <<>>
      /\ JsonFiles = {} => raised = "RuntimeError"
      /\ raised = "ValueError" => Invalid(FirstBad) /\ NamesFile(message[1], FirstBad)
      /\ (BadFiles # {} /\ Invalid(FirstBad)) => raised = "ValueError"
      /\ raised = "" =>
           /\ policies # <<>>
           /\ Len(policies) = Cardinality(JsonFiles)
           /\ \A f \in JsonFiles : \E i \in DOMAIN policies : policies[i] = Record(f)
           /\ \A i, j \in DOMAIN policies : i < j =>
                \E f, g \in JsonFiles : /\ policies[i] = Record(f) /\ policies[j] = Record(g)
                                        /\ TextLess(f.name, g.name)

\* three files loaded, one of them named with a capital letter, one without
\* a policy_id of its own
C21_Witness ==
    /\ pc = "constructed"
    /\ Len(policies) = 3
    /\ policies[1].product_name = PolicyTravelMini.product_name
    /\ \E i \in DOMAIN policies : policies[i].policy_id = <<"p","o","l","i","c","y","_","g","o","_","2">>

\* a directory in which a file that loads sorts before one that fails validation
LoadStoppedMidway ==
    /\ pc = "crashed" /\ raised = "ValueError"
    /\ \E f \in JsonFiles : ~Unreadable(f) /\ ~Invalid(f) /\ TextLess(f.name, FirstBad.name)

(***************************************************************************)
(* The packet of the decision engine                                       *)
(***************************************************************************)
Built == packet # None /\ pc = "built"
IssueLower == Lower(claim[1].issue_description)
ExclusionLine(l) == l.msg = "Claim matches an exclusion condition: {exclusion_reason}"
ExclusionLines == SelectSeq(packet[1].reasoning, ExclusionLine)
\* the checks that fire on a lowercased issue text, in the order the code
\* evaluates them
FiredOn(low) ==
    When(VoltageHit(low), ReasonVoltage) \o When(TravelDamageHit(low), ReasonTravel)
      \o When(FitmentHit(low), ReasonFitment)
FiredChecks == FiredOn(IssueLower)

\* C22: when several of the voltage, travel-damage and accessory-fitment
\* checks fire, the reasoning cites the reason of the last of them in that
\* order, in exactly one "Claim matches an exclusion condition" line; when
\* none fires there is no such line
C22_LastExclusionWins ==
    Built =>
      \E fired \in {FiredChecks} :
         /\ fired # <<>> => ExclusionLines = << Ln("Claim matches an exclusion condition: {exclusion_reason}", <<fired[Len(fired)]>>) >>
         /\ fired = <<>> => ExclusionLines = <<>>

\* voltage and fitment both fire and only the fitment reason is cited
C22_Witness ==
    /\ Built
    /\ FiredChecks = <<ReasonVoltage, ReasonFitment>>
    /\ ExclusionLines[1].args = <<ReasonFitment>>
    /\ \A i \in DOMAIN packet[1].reasoning : packet[1].reasoning[i].args # <<ReasonVoltage>>

Followups == packet[1].customer_followup_questions
Asked(q) == \E i \in DOMAIN Followups : Followups[i] = q
QuestionOrder == <<QModel, QProof, QDate, QAddress>>
Place(q) == CHOOSE k \in DOMAIN QuestionOrder : QuestionOrder[k] = q

\* C23: the follow-up questions of a new packet are the model question iff the
\* product name is absent, the proof question iff proof of purchase is absent,
\* the date question iff the purchase date is absent and the address question
\* iff the recommendation is APPROVE and the shipping address is absent; they
\* come in that order and none comes twice
C23_FollowupQuestions ==
    Built =>
      /\ Asked(QModel) <=> ~Truthy(claim[1].product_name)
      /\ Asked(QProof) <=> ~claim[1].proof_of_purchase_present
      /\ Asked(QDate) <=> claim[1].purchase_date = None
      /\ Asked(QAddress) <=> (packet[1].recommendation = "APPROVE" /\ ~Truthy(claim[1].shipping_address))
      /\ \A i \in DOMAIN Followups : Followups[i] \in RangeOf(QuestionOrder)
      /\ \A i, j \in DOMAIN Followups : i < j => Place(Followups[i]) < Place(Followups[j])

\* an APPROVE packet that asks all four questions
C23_Witness ==
    /\ Built
    /\ packet[1].recommendation = "APPROVE"
    /\ Followups = QuestionOrder

\* a rejected claim without an address is not asked for one
RejectedNotAskedAddress ==
    /\ Built
    /\ packet[1].recommendation = "REJECT"
    /\ ~Truthy(claim[1].shipping_address)
    /\ ~Asked(QAddress)

\* C24: the reasoning list of every packet build_review_packet returns is
\* non-empty, whatever the purchase date, issue text, proof flag, address and
\* excerpts
C24_ReasoningNeverEmpty == Built => packet[1].reasoning # <<>>

\* a packet for a claim without a purchase date, proof or address, whose only
\* reasoning line is that of the NEED_MORE_INFO rule
C24_Witness ==
    /\ Built
    /\ claim[1].purchase_date = None /\ ~claim[1].proof_of_purchase_present
    /\ ~Truthy(claim[1].shipping_address)
    /\ packet[1].recommendation = "NEED_MORE_INFO"
    /\ Len(packet[1].reasoning) = 1

\* the generic fallback line is never what fills the list
GenericLineNeverUsed == Built => \A i \in DOMAIN packet[1].reasoning : packet[1].reasoning[i] # GenericLine

\* C26: in every packet build_review_packet returns, REJECT comes with
\* confidence high, NEED_MORE_INFO with low, and APPROVE with high or medium,
\* high only when the purchase date and the proof of purchase are present
C26_ConfidenceFollowsRecommendation ==
    Built =>
      /\ packet[1].recommendation = "REJECT" => packet[1].confidence = "high"
      /\ packet[1].recommendation = "NEED_MORE_INFO" => packet[1].confidence = "low"
      /\ packet[1].recommendation = "APPROVE" =>
           /\ packet[1].confidence \in {"high", "medium"}
           /\ packet[1].confidence = "high" =>
                claim[1].purchase_date # None /\ claim[1].proof_of_purchase_present

\* an approval in the window without proof of purchase, at confidence medium
C26_Witness ==
    /\ Built
    /\ packet[1].recommendation = "APPROVE" /\ packet[1].confidence = "medium"
    /\ claim[1].purchase_date # None /\ ~claim[1].proof_of_purchase_present

\* C30: a purchase date later than today gives a negative day count, which
\* is within the window: when no exclusion check fires the recommendation is
\* APPROVE, at confidence high when proof of purchase is present (medium
\* otherwise), never NEED_MORE_INFO or REJECT
C30_FuturePurchaseApproved ==
    (Built /\ claim[1].purchase_date # None) =>
      \E days \in {DaysBetween(today, claim[1].purchase_date[1])} :
         (days < 0 /\ FiredChecks = <<>>) =>
           /\ packet[1].recommendation = "APPROVE"
           /\ packet[1].confidence = IF claim[1].proof_of_purchase_present THEN "high" ELSE "medium"
           /\ packet[1].reasoning[1].args[1] = <<"-">> \o NatToText(0 - days)

\* bought tomorrow, with proof: approved at confidence high on "-1 days"
C30_Witness ==
    /\ Built
    /\ claim[1].purchase_date = Some(Date(2026, 11, 2))
    /\ claim[1].proof_of_purchase_present
    /\ FiredChecks = <<>>
    /\ packet[1].recommendation = "APPROVE" /\ packet[1].confidence = "high"
    /\ packet[1].reasoning[1].args[1] = <<"-", "1">>

(***************************************************************************)
(* The packet after the decision engine                                    *)
(***************************************************************************)
Phase1Step == pc = "built" /\ pc' = "review"
Phase2Step == pc = "review" /\ pc' = "actioned"
\* the packet after the step, with the named fields put back
Phase1Frame ==
    [packet'[1] EXCEPT !.triage_label = packet[1].triage_label,
                       !.routing_notes = packet[1].routing_notes] = packet[1]
Phase2Frame ==
    [packet'[1] EXCEPT !.recommendation = packet[1].recommendation,
                       !.customer_followup_questions = packet[1].customer_followup_questions] = packet[1]
QuestionsChanged == packet'[1].customer_followup_questions # packet[1].customer_followup_questions

\* C25: once the decision engine has made the packet, phase 1 changes only
\* triage_label and routing_notes, and draft_outputs_after_human_decision
\* changes only the recommendation and, only when the decision is APPROVED
\* and the address is missing, the follow-up questions; confidence, facts,
\* assumptions, reasoning, uncertainty notes, evidence checklist, excerpts,
\* extracted claim and selected policy are the same after phase 2 as before,
\* for each of the three decisions
C25_PacketFrame ==
    [][ /\ Phase1Step => Phase1Frame
        /\ Phase2Step =>
             /\ Phase2Frame
             /\ QuestionsChanged =>
                  /\ outputs'[1].human_decision = "APPROVED"
                  /\ ~Truthy(packet[1].extracted.shipping_address) ]_vars

\* approved without an address: the questions were replaced and the
\* recommendation overridden, the note of phase 1 and the engine's confidence
\* and reasoning are still there
C25_Witness ==
    /\ pc = "actioned"
    /\ outputs[1].human_decision = "APPROVED"
    /\ ~Truthy(claim[1].shipping_address)
    /\ ~claim[1].proof_of_purchase_present
    /\ packet[1].customer_followup_questions = <<QAddress>>
    /\ packet[1].recommendation = "NEED_MORE_INFO"
    /\ packet[1].confidence = "high"
    /\ Len(packet[1].routing_notes) = 1
    /\ packet[1].reasoning # <<>>

\* what the post-decision step makes of a decision, given whether the claim
\* has a shipping address
AfterDecision(d, has_address) ==
    IF d = "APPROVED" THEN (IF has_address THEN "APPROVE" ELSE "NEED_MORE_INFO")
    ELSE IF d = "REJECTED" THEN "REJECT"
    ELSE "NEED_MORE_INFO"

\* C27: after draft_outputs_after_human_decision the packet's recommendation
\* depends only on the human decision and on whether the shipping address is
\* present, not on what the decision engine recommended; APPROVED with an
\* address gives APPROVE and a label even for a packet the engine rejected on
\* an exclusion, and the confidence is still the engine's
C27_DecisionOverridesEngine ==
    [][ Phase2Step =>
          /\ packet'[1].recommendation =
               AfterDecision(outputs'[1].human_decision, Truthy(packet[1].extracted.shipping_address))
          /\ packet'[1].confidence = packet[1].confidence
          /\ (outputs'[1].human_decision = "APPROVED" /\ Truthy(packet[1].extracted.shipping_address)) =>
               /\ outputs'[1].label_ref # None
               /\ \E l \in outbox' \ outbox : outputs'[1].label_ref = Some(l.filename) ]_vars

\* the engine rejected on an exclusion, the human approved, the address is
\* there: APPROVE, a label, confidence high and the exclusion still cited
C27_Witness ==
    /\ Approved /\ ~AddressAbsent
    /\ ExclusionLines # <<>>
    /\ packet[1].recommendation = "APPROVE"
    /\ packet[1].confidence = "high"
    /\ outputs[1].label_ref # None /\ outbox # {}

\* C28: draft_outputs_after_human_decision raises nothing on a decision that
\* is none of APPROVED, REJECTED and MORE_INFO_REQUESTED and handles it
\* exactly as MORE_INFO_REQUESTED: the recommendation becomes NEED_MORE_INFO,
\* an info-request email is drafted and no label is returned or written
C28_UnknownDecisionAsMoreInfo ==
    [][ (Phase2Step /\ outputs'[1].human_decision \notin HumanDecisions) =>
          \E r \in {DraftOutputsAfterHumanDecision(packet[1], PolicyForPacket(packet[1]), "MORE_INFO_REQUESTED", backend', uuids)} :
             /\ packet' = Some(r.packet)
             /\ outputs'[1].drafted_email = r.drafted_email
             /\ outputs'[1].label_ref = None
             /\ packet'[1].recommendation = "NEED_MORE_INFO"
             /\ outputs'[1].drafted_email.kind \in {"llm", "more_info"}
             /\ outbox' = outbox
             /\ raised' = "" ]_vars

\* the lower-case "approved" on a claim with an address: no label, a request
\* for information
C28_Witness ==
    /\ pc = "actioned"
    /\ outputs[1].human_decision = "approved"
    /\ ~AddressAbsent
    /\ packet[1].recommendation = "NEED_MORE_INFO"
    /\ outputs[1].label_ref = None /\ outbox = {}
    /\ outputs[1].drafted_email.kind # "llm"

(***************************************************************************)
(* The address on the heuristic extraction path                            *)
(***************************************************************************)
GivesAddress(e) == Contains(e.body, ShipTo)

\* C29: heuristic extraction leaves shipping_address absent for every email,
\* so on an email processed end to end a decision of APPROVED always ends in
\* NEED_MORE_INFO without a label, no label is ever generated, and no label
\* carries the placeholder CUSTOMER_ADDRESS_MISSING
C29_HeuristicNeverShips ==
    /\ claim # None => claim[1].shipping_address = None
    /\ (pc = "actioned" /\ outputs[1].human_decision = "APPROVED") =>
         /\ packet[1].recommendation = "NEED_MORE_INFO"
         /\ outputs[1].label_ref = None
         /\ \A i \in DOMAIN calls : calls[i] # "label_generator.generate"
    /\ outbox = {}
    /\ \A l \in outbox : l.to_address # AddressMissing

\* an email that states where to ship, approved by the human: the address
\* was not extracted and the customer is asked for it
C29_Witness ==
    /\ pc = "actioned"
    /\ outputs[1].human_decision = "APPROVED"
    /\ GivesAddress(email[1])
    /\ packet[1].extracted.shipping_address = None
    /\ packet[1].recommendation = "NEED_MORE_INFO"
    /\ packet[1].customer_followup_questions = <<QAddress>>

=============================================================================
